---- MODULE Spec2Model ----
(***************************************************************************)
(* Model of the per-day financial state machine of fra-l/portfolio:        *)
(* tax-lot ledger, executor, progressive tax, tax-loss harvesting, margin  *)
(* lifecycle and the strategy orchestrator (on_date).                      *)
(*                                                                         *)
(* Numbers.  The program computes in floats; the model computes in exact   *)
(* integers on a grid of one currency unit / one share.  A division whose  *)
(* result is off the grid clears the `exact` flag of the value it flows    *)
(* into, and an action is enabled only for inputs on which every division  *)
(* of the handler is exact, so every behaviour of the model is a behaviour *)
(* of the code under real arithmetic.  The code's share/amount epsilons    *)
(* (1e-12, 1e-9, 1e-6) lie below the grid, so `x > 1e-12` reads `x > 0`.   *)
(* Ratios that are only compared (tax, leverage, interest cost) are kept   *)
(* as numerator/denominator and compared by cross-multiplication.          *)
(***************************************************************************)
EXTENDS Integers, Sequences, FiniteSets, TLC

VARIABLES
    cfg,                  \* configuration of the run (TaxConfig, MarginConfig, TradingCostConfig, optional collaborators)
    market,               \* market-data table chosen at construction: ticker -> cyclic price path
    date,                 \* the date of the current / last on_date call (None before the first)
    prices,               \* get_price(ticker, date) for the current date
    cash,                 \* Portfolio.cash
    margin_balance,       \* Portfolio.margin_balance
    positions,            \* keys of Portfolio.positions in insertion order
    lots,                 \* ticker -> Position.lots
    trades,               \* Executor.trades
    realized_gains,       \* FactorReplicationStrategy.realized_gains
    total_interest_paid,  \* FactorReplicationStrategy.total_interest_paid
    exposure_history,     \* FactorReplicationStrategy.exposure_history
    last_rebalance_date,  \* FactorReplicationStrategy.last_rebalance_date
    harvested_this_year,  \* TaxHarvestingEngine._harvested_this_year
    current_year,         \* TaxHarvestingEngine._current_year
    wash_sale_blacklist,  \* TaxHarvestingEngine.wash_sale_blacklist
    pc,                   \* position inside on_date ("idle" between calls)
    loc,                  \* locals of the running on_date call that later steps read
    ret,                  \* what the last call returned
    calls                 \* number of calls the driver has made

vars == <<cfg, market, date, prices, cash, margin_balance, positions, lots,
          trades, realized_gains, total_interest_paid, exposure_history,
          last_rebalance_date, harvested_this_year, current_year,
          wash_sale_blacklist, pc, loc, ret, calls>>

ledgerVars == <<cash, margin_balance, positions, lots, trades>>
strategyVars == <<realized_gains, total_interest_paid, exposure_history, last_rebalance_date>>
harvesterVars == <<harvested_this_year, current_year, wash_sale_blacklist>>

----------------------------------------------------------------------------
(* Bounds of the model *)

MaxDay == 7            \* last simulated date
DaysPerMonth == 2      \* length of a calendar month, in dates
MonthsPerYear == 3     \* months of a calendar year
MaxCalls == 3          \* calls made by the executor / harvester harnesses
MaxLots == 3           \* lots held by the position of the position harness

(* Python's None and float("inf") *)
None == 0
Infinity == 1000000

Tickers == {"A", "B"}
NoTicker == "None"

Min(a, b) == IF a <= b THEN a ELSE b
Max(a, b) == IF a >= b THEN a ELSE b
Abs(a) == IF a < 0 THEN 0 - a ELSE a

RECURSIVE SumSeq(_)
SumSeq(s) == IF s = <<>> THEN 0 ELSE Head(s) + SumSeq(Tail(s))

(* Python's sorted(): the indices of `keys` in ascending key order, equal   *)
(* keys in their original order (stable).                                    *)
SortedIdx(keys) ==
    LET n == Len(keys)
        Before(i, j) == keys[i] < keys[j] \/ (keys[i] = keys[j] /\ i < j)
        Rank(i) == Cardinality({j \in 1..n : Before(j, i)}) + 1
    IN [r \in 1..n |-> CHOOSE i \in 1..n : Rank(i) = r]

----------------------------------------------------------------------------
(* Calendar: dates are day numbers 1, 2, ... *)

Year(d) == ((d - 1) \div (DaysPerMonth * MonthsPerYear)) + 1
MonthOf(d) == (((d - 1) \div DaysPerMonth) % MonthsPerYear) + 1
PeriodOf(d) == (d - 1) \div DaysPerMonth

----------------------------------------------------------------------------
(* Ledger: Lot / Position / Portfolio.  A ledger value L is the record      *)
(* [cash, margin_balance, positions, lots, trades, exact].                  *)

Lot(shares, cost_basis, purchase_date) ==
    [shares |-> shares, cost_basis |-> cost_basis, purchase_date |-> purchase_date]

total_shares(ls) == SumSeq([i \in 1..Len(ls) |-> ls[i].shares])

add_position(L, ticker, lot) ==
    [L EXCEPT !.positions = IF \E i \in 1..Len(@) : @[i] = ticker THEN @ ELSE Append(@, ticker),
              !.lots[ticker] = Append(@, lot)]

HasPosition(L, ticker) == \E i \in 1..Len(L.positions) : L.positions[i] = ticker

PositionValue(L, px, ticker) == total_shares(L.lots[ticker]) * px[ticker]

market_value(L, px) ==
    L.cash + SumSeq([i \in 1..Len(L.positions) |-> PositionValue(L, px, L.positions[i])])

equity_value(L, px) == market_value(L, px) - L.margin_balance

(* A ratio is <<numerator, denominator>>; denominator 0 is +infinity. *)
RatioOne == <<1, 1>>
RatioInf == <<1, 0>>
RatioGT(r, m) == IF r[2] = 0 THEN m[2] # 0 ELSE m[2] # 0 /\ r[1] * m[2] > m[1] * r[2]
RatioLE(r, m) == ~RatioGT(r, m)

leverage_ratio_unguarded(L, px) ==
    IF L.margin_balance <= 0 THEN RatioOne
    ELSE <<market_value(L, px), equity_value(L, px)>>

leverage_ratio(L, px) ==
    IF L.margin_balance <= 0 THEN RatioOne
    ELSE LET equity == equity_value(L, px) IN
         IF equity <= 0 THEN RatioInf
         ELSE <<market_value(L, px), equity>>

(* unrealized P&L of a position at a price *)
UnrealizedPnl(ls, price) ==
    SumSeq([i \in 1..Len(ls) |-> (price - ls[i].cost_basis) * ls[i].shares])

SortedLotsByDate(ls, method) ==
    SortedIdx([i \in 1..Len(ls) |-> ls[i].purchase_date])

SortedLotsLowestFirst(ls, method) ==
    IF method = "HIFO"
    THEN SortedIdx([i \in 1..Len(ls) |-> ls[i].cost_basis])
    ELSE SortedIdx([i \in 1..Len(ls) |-> ls[i].purchase_date])

SortedLots(ls, method) ==
    IF method = "HIFO"
    THEN SortedIdx([i \in 1..Len(ls) |-> 0 - ls[i].cost_basis])
    ELSE SortedIdx([i \in 1..Len(ls) |-> ls[i].purchase_date])

RECURSIVE SellLoop(_, _, _, _, _)
SellLoop(ls, order, remaining, price, acc) ==
    IF order = <<>> \/ remaining <= 0
    THEN [lots |-> ls, remaining |-> remaining, proceeds |-> acc.proceeds,
          realized_gain |-> acc.realized_gain, lots_consumed |-> acc.lots_consumed]
    ELSE LET i == Head(order)
             sell_from_lot == Min(ls[i].shares, remaining)
         IN SellLoop([ls EXCEPT ![i].shares = @ - sell_from_lot], Tail(order),
                     remaining - sell_from_lot, price,
                     [proceeds |-> acc.proceeds + sell_from_lot * price,
                      realized_gain |-> acc.realized_gain
                                         + sell_from_lot * (price - ls[i].cost_basis),
                      lots_consumed |-> acc.lots_consumed + 1])

PruneLots(ls) == SelectSeq(ls, LAMBDA l : l.shares > 0)

sell_shares_as_requested(ls, shares, current_price, method) ==
    LET r == SellLoop(ls, SortedLots(ls, method), shares, current_price,
                      [proceeds |-> 0, realized_gain |-> 0, lots_consumed |-> 0])
    IN [lots |-> PruneLots(r.lots),
        shares_sold |-> shares,
        proceeds |-> shares * current_price,
        realized_gain |-> r.realized_gain,
        lots_consumed |-> r.lots_consumed]

sell_shares(ls, shares, current_price, method) ==
    LET r == SellLoop(ls, SortedLots(ls, method), shares, current_price,
                      [proceeds |-> 0, realized_gain |-> 0, lots_consumed |-> 0])
    IN [lots |-> PruneLots(r.lots),
        shares_sold |-> shares - r.remaining,
        proceeds |-> r.proceeds,
        realized_gain |-> r.realized_gain,
        lots_consumed |-> r.lots_consumed]

----------------------------------------------------------------------------
(* Executor *)

TradeRecord(type, d, ticker, shares, price, amount) ==
    [type |-> type, date |-> d, ticker |-> ticker, shares |-> shares,
     price |-> price, amount |-> amount]

ExecBuyAtZeroBasis(L, px, ticker, euro_amount, d) ==
    LET price == px[ticker]
        shares == euro_amount \div price
        L1 == [L EXCEPT !.cash = @ - euro_amount,
                        !.exact = @ /\ (euro_amount % price = 0)]
        L2 == add_position(L1, ticker, Lot(shares, 0, d))
    IN [L2 EXCEPT !.trades = Append(@, TradeRecord("buy", d, ticker, shares, price, euro_amount))]

ExecBuy(L, px, ticker, euro_amount, d) ==
    LET price == px[ticker]
        shares == euro_amount \div price
        L1 == [L EXCEPT !.cash = @ - euro_amount,
                        !.exact = @ /\ (euro_amount % price = 0)]
        L2 == add_position(L1, ticker, Lot(shares, price, d))
    IN [L2 EXCEPT !.trades = Append(@, TradeRecord("buy", d, ticker, shares, price, euro_amount))]

ExecSellOverwriting(L, px, ticker, shares, d, method) ==
    LET price == px[ticker]
        result == sell_shares(L.lots[ticker], shares, price, method)
        record == TradeRecord("sell", d, ticker, result.shares_sold, price, result.proceeds)
    IN [L |-> [L EXCEPT !.lots[ticker] = result.lots,
                        !.cash = @ + result.proceeds,
                        !.trades = IF @ = <<>> THEN <<record>>
                                   ELSE [@ EXCEPT ![Len(@)] = record]],
        result |-> [shares_sold |-> result.shares_sold, proceeds |-> result.proceeds,
                    realized_gain |-> result.realized_gain,
                    lots_consumed |-> result.lots_consumed]]

ExecSell(L, px, ticker, shares, d, method) ==
    LET price == px[ticker]
        result == sell_shares(L.lots[ticker], shares, price, method)
    IN [L |-> [L EXCEPT !.lots[ticker] = result.lots,
                        !.cash = @ + result.proceeds,
                        !.trades = Append(@, TradeRecord("sell", d, ticker,
                                            result.shares_sold, price, result.proceeds))],
        result |-> [shares_sold |-> result.shares_sold, proceeds |-> result.proceeds,
                    realized_gain |-> result.realized_gain,
                    lots_consumed |-> result.lots_consumed]]

ExecBorrowUnlogged(L, amount, d) ==
    [L EXCEPT !.cash = @ + amount, !.margin_balance = @ + amount]

ExecBorrow(L, amount, d) ==
    [L EXCEPT !.cash = @ + amount,
              !.margin_balance = @ + amount,
              !.trades = Append(@, TradeRecord("borrow", d, NoTicker, 0, 0, amount))]

RepayableNoCashCap(L, amount) == Min(amount, L.margin_balance)
RepayableNoDebtCap(L, amount) == Min(amount, Max(L.cash, 0))
Repayable(L, amount) == Min(Min(amount, L.margin_balance), Max(L.cash, 0))

ExecRepayDebtOnly(L, amount, d) ==
    LET repayable == Repayable(L, amount) IN
    IF repayable <= 0
    THEN [L |-> L, repaid |-> 0]
    ELSE [L |-> [L EXCEPT !.margin_balance = @ - repayable,
                          !.trades = Append(@, TradeRecord("repay", d, NoTicker, 0, 0, repayable))],
          repaid |-> repayable]

ExecRepay(L, amount, d) ==
    LET repayable == Repayable(L, amount) IN
    IF repayable <= 0
    THEN [L |-> L, repaid |-> 0]
    ELSE [L |-> [L EXCEPT !.cash = @ - repayable,
                          !.margin_balance = @ - repayable,
                          !.trades = Append(@, TradeRecord("repay", d, NoTicker, 0, 0, repayable))],
          repaid |-> repayable]

(* What a call returned: the call, its amount argument, the amount repaid,  *)
(* the sell result, the harvest records, the exception that left it,        *)
(* whether the optimizer had a solution and whether the decision engine     *)
(* approved.                                                                *)
NoResult == [shares_sold |-> 0, proceeds |-> 0, realized_gain |-> 0, lots_consumed |-> 0]
Returned(op) ==
    [op |-> op, amount |-> 0, repaid |-> 0, result |-> NoResult, records |-> <<>>,
     fault |-> "none", solved |-> TRUE, approved |-> TRUE]

(* the ledger held in the variables, and its write-back *)
Ledger ==
    [cash |-> cash, margin_balance |-> margin_balance, positions |-> positions,
     lots |-> lots, trades |-> trades, exact |-> TRUE]

SetLedger(L) ==
    /\ L.exact
    /\ cash' = L.cash
    /\ margin_balance' = L.margin_balance
    /\ positions' = L.positions
    /\ lots' = L.lots
    /\ trades' = L.trades

----------------------------------------------------------------------------
(* Tax engine.  Rates are percentages; tax amounts are in hundredths of a   *)
(* currency unit (RateDen of them make one unit).                           *)

RateDen == 100

RECURSIVE TaxLoop(_, _, _, _)
TaxLoop(brackets, remaining, prev_limit, tax) ==
    IF brackets = <<>> THEN tax
    ELSE LET upper_limit == Head(brackets)[1]
             rate == Head(brackets)[2]
             band == IF upper_limit = Infinity THEN remaining
                     ELSE Min(remaining, upper_limit - prev_limit)
         IN IF band <= 0 THEN tax
            ELSE IF remaining - band <= 0 THEN tax + band * rate
            ELSE TaxLoop(Tail(brackets), remaining - band, upper_limit, tax + band * rate)

tax_due_top_rate(realized_gain) ==
    IF realized_gain <= 0 THEN 0
    ELSE LET i == CHOOSE k \in 1..Len(cfg.brackets) :
                     /\ realized_gain <= cfg.brackets[k][1]
                     /\ \A j \in 1..(k - 1) : realized_gain > cfg.brackets[j][1]
         IN realized_gain * cfg.brackets[i][2]

tax_due(realized_gain) ==
    IF realized_gain <= 0 THEN 0
    ELSE TaxLoop(cfg.brackets, realized_gain, 0, 0)

----------------------------------------------------------------------------
(* Margin cost model and decision engine *)

TRADING_DAYS == 252
CalendarDays == 365

(* daily_interest(balance, rate) = balance * rate / 252, rate = <<num, den>> *)
daily_interest_per_month(balance, annual_rate) ==
    [value |-> (balance * annual_rate[1]) \div (annual_rate[2] * 12),
     exact |-> (balance * annual_rate[1]) % (annual_rate[2] * 12) = 0]

daily_interest(balance, annual_rate) ==
    [value |-> (balance * annual_rate[1]) \div (annual_rate[2] * TRADING_DAYS),
     exact |-> (balance * annual_rate[1]) % (annual_rate[2] * TRADING_DAYS) = 0]

total_cost_trading_days(amount, annual_rate, days) ==
    <<amount * annual_rate[1] * days, annual_rate[2] * TRADING_DAYS>>

(* total_cost(amount, rate, days) = amount * rate * days / 365, as a ratio *)
total_cost(amount, annual_rate, days) ==
    <<amount * annual_rate[1] * days, annual_rate[2] * CalendarDays>>

trading_cost_signed(trade_value) ==
    Max(trade_value * cfg.pct_cost, cfg.min_cost * RateDen)

(* max(|trade_value| * pct_cost, min_cost), in hundredths; pct_cost is a percentage *)
trading_cost(trade_value) ==
    Max(Abs(trade_value) * cfg.pct_cost, cfg.min_cost * RateDen)

should_rebalance(unrealized_gain, expected_improvement, trade_value) ==
    LET cost == tax_due(unrealized_gain) + trading_cost(trade_value)
    IN expected_improvement[1] * RateDen > cost * expected_improvement[2]

should_borrow_instead_of_sell(unrealized_gain, sell_amount, expected_hold_days) ==
    IF ~cfg.de_margin_enabled THEN FALSE
    ELSE IF ~cfg.de_has_cost_model THEN FALSE
    ELSE LET tax_cost == tax_due(unrealized_gain)
             interest_cost == total_cost(sell_amount, cfg.annual_rate, expected_hold_days)
         IN IF tax_cost <= 0 THEN FALSE
            ELSE interest_cost[1] * RateDen < tax_cost * interest_cost[2]

----------------------------------------------------------------------------
(* Tax harvesting engine.  A harvester value H is                           *)
(* [L, harvested_this_year, current_year, wash_sale_blacklist].             *)

is_wash_sale_blocked_inclusive(blacklist, ticker, d) ==
    IF blacklist[ticker] = None THEN FALSE
    ELSE d - blacklist[ticker] <= cfg.wash_sale_waiting_days

is_wash_sale_blocked_same_day(blacklist, ticker, d) ==
    IF blacklist[ticker] = None THEN FALSE
    ELSE d - blacklist[ticker] < 1

is_wash_sale_blocked(blacklist, ticker, d) ==
    IF blacklist[ticker] = None THEN FALSE
    ELSE LET days_since == d - blacklist[ticker]
         IN days_since < cfg.wash_sale_waiting_days

reset_annual_every_call(H, d) ==
    [H EXCEPT !.harvested_this_year = 0, !.current_year = Year(d)]

reset_annual_if_needed(H, d) ==
    IF H.current_year # Year(d)
    THEN [H EXCEPT !.harvested_this_year = 0, !.current_year = Year(d)]
    ELSE H

RECURSIVE TargetLossLoop(_, _, _, _, _)
TargetLossLoop(ls, order, current_price, remaining_needed, acc) ==
    IF order = <<>> THEN acc
    ELSE LET lot == ls[Head(order)]
             loss_per_share == lot.cost_basis - current_price
             lot_total_loss == loss_per_share * lot.shares
         IN IF loss_per_share <= 0
            THEN TargetLossLoop(ls, Tail(order), current_price, remaining_needed, acc)
            ELSE IF lot_total_loss >= remaining_needed
            THEN [shares |-> acc.shares + (remaining_needed \div loss_per_share),
                  exact |-> acc.exact /\ (remaining_needed % loss_per_share = 0)]
            ELSE TargetLossLoop(ls, Tail(order), current_price,
                                remaining_needed - lot_total_loss,
                                [acc EXCEPT !.shares = @ + lot.shares])

shares_for_whole_position(ls, current_price, target_loss) ==
    [shares |-> total_shares(ls), exact |-> TRUE]

shares_for_target_loss_at_average_cost(ls, current_price, target_loss) ==
    LET loss == 0 - UnrealizedPnl(ls, current_price) IN
    IF loss <= 0
    THEN [shares |-> 0, exact |-> TRUE]
    ELSE [shares |-> (target_loss * total_shares(ls)) \div loss,
          exact |-> (target_loss * total_shares(ls)) % loss = 0]

shares_for_target_loss(ls, current_price, target_loss) ==
    TargetLossLoop(ls, SortedLots(ls, "HIFO"), current_price, target_loss,
                   [shares |-> 0, exact |-> TRUE])

tax_saved_of_loss(realized_loss, realized_gains_ytd) == tax_due(realized_loss)

tax_saved(realized_loss, realized_gains_ytd) ==
    tax_due(realized_gains_ytd) - tax_due(Max(0, realized_gains_ytd - realized_loss))

AnnualRoom(H) ==
    IF cfg.max_harvest_per_year = Infinity THEN Infinity
    ELSE cfg.max_harvest_per_year - H.harvested_this_year

LossToHarvestNoCap(available_loss, remaining_gains, annual_room) ==
    Min(available_loss, remaining_gains)
LossToHarvestNoGainsLimit(available_loss, remaining_gains, annual_room) ==
    Min(available_loss, annual_room)
LossToHarvest(available_loss, remaining_gains, annual_room) ==
    Min(Min(available_loss, remaining_gains), annual_room)

HarvestOne(H, px, d, ticker, remaining_gains, annual_room) ==
    LET ls == H.L.lots[ticker]
        current_price == px[ticker]
        total_pnl == UnrealizedPnl(ls, current_price)
        available_loss == Abs(total_pnl)
        loss_to_harvest == LossToHarvest(available_loss, remaining_gains, annual_room)
        sts == shares_for_target_loss(ls, current_price, loss_to_harvest)
        sold == ExecSell(H.L, px, ticker, sts.shares, d, "HIFO")
        realized_loss == Abs(sold.result.realized_gain)
        skip == [H |-> H, remaining_gains |-> remaining_gains, records |-> <<>>]
    IN IF total_shares(ls) <= 0 THEN skip
       ELSE IF is_wash_sale_blocked(H.wash_sale_blacklist, ticker, d) THEN skip
       ELSE IF total_pnl >= 0 - cfg.min_loss_threshold THEN skip
       ELSE IF loss_to_harvest < cfg.min_loss_threshold THEN skip
       ELSE IF sts.shares <= 0 THEN [skip EXCEPT !.H.L.exact = @ /\ sts.exact]
       ELSE [H |-> [H EXCEPT !.L = [sold.L EXCEPT !.exact = @ /\ sts.exact],
                             !.wash_sale_blacklist[ticker] = d,
                             !.harvested_this_year = @ + realized_loss],
             remaining_gains |-> Max(remaining_gains - realized_loss, 0),
             records |-> <<[date |-> d, ticker |-> ticker,
                            shares_sold |-> sold.result.shares_sold,
                            proceeds |-> sold.result.proceeds,
                            realized_loss |-> realized_loss,
                            tax_saved |-> tax_saved(realized_loss, remaining_gains)]>>]

RECURSIVE HarvestLoop(_, _, _, _, _, _)
HarvestLoop(H, px, d, tickers, remaining_gains, records) ==
    IF tickers = <<>> \/ remaining_gains <= 0 \/ AnnualRoom(H) <= 0
    THEN [H |-> H, records |-> records]
    ELSE LET r == HarvestOne(H, px, d, Head(tickers), remaining_gains, AnnualRoom(H))
         IN HarvestLoop(r.H, px, d, Tail(tickers), r.remaining_gains, records \o r.records)

harvest_any_month(H0, px, d, realized_gains_ytd) ==
    LET H == reset_annual_if_needed(H0, d) IN
    IF ~cfg.harvest_enabled THEN [H |-> H, records |-> <<>>]
    ELSE IF realized_gains_ytd <= 0 THEN [H |-> H, records |-> <<>>]
    ELSE HarvestLoop(H, px, d, H.L.positions, realized_gains_ytd, <<>>)

harvest(H0, px, d, realized_gains_ytd) ==
    LET H == reset_annual_if_needed(H0, d) IN
    IF ~cfg.harvest_enabled THEN [H |-> H, records |-> <<>>]
    ELSE IF MonthOf(d) \notin cfg.harvest_months THEN [H |-> H, records |-> <<>>]
    ELSE IF realized_gains_ytd <= 0 THEN [H |-> H, records |-> <<>>]
    ELSE HarvestLoop(H, px, d, H.L.positions, realized_gains_ytd, <<>>)

Harvester ==
    [L |-> Ledger, harvested_this_year |-> harvested_this_year,
     current_year |-> current_year, wash_sale_blacklist |-> wash_sale_blacklist]

SetHarvester(H) ==
    /\ SetLedger(H.L)
    /\ harvested_this_year' = H.harvested_this_year
    /\ current_year' = H.current_year
    /\ wash_sale_blacklist' = H.wash_sale_blacklist

----------------------------------------------------------------------------
(* Market data: a table fixed at construction; each ticker's prices repeat  *)
(* cyclically along the dates.                                              *)

get_price(m, ticker, d) == m[ticker][((d - 1) % Len(m[ticker])) + 1]
PricesAt(m, d) == [t \in Tickers |-> get_price(m, t, d)]

----------------------------------------------------------------------------
(* Strategy orchestrator: FactorReplicationStrategy.on_date, step by step.  *)
(* pc: idle -> (liquidate ->) harvest -> gate -> overlay -> rebalance ->    *)
(*     repay -> idle;  "fault" when an exception leaves on_date.            *)

MarginOn == cfg.margin_config = "enabled"

(* the locals of on_date outside a call *)
NoLocals == [universe |-> <<>>, tracking_error |-> <<0, 1>>, r2 |-> <<0, 1>>]

is_rebalance_date_always(d) == TRUE

is_rebalance_date_daily(d) ==
    IF last_rebalance_date = None THEN TRUE
    ELSE d # last_rebalance_date

is_rebalance_date(d) ==
    IF last_rebalance_date = None THEN TRUE
    ELSE PeriodOf(d) # PeriodOf(last_rebalance_date)

realized_gains_before_today(rg, d) ==
    SumSeq([i \in 1..Len(rg) |->
               IF Year(rg[i].date) = Year(d) /\ rg[i].date # d
               THEN rg[i].realized_gain ELSE 0])

realized_gains_ytd(rg, d) ==
    SumSeq([i \in 1..Len(rg) |->
               IF Year(rg[i].date) = Year(d) THEN rg[i].realized_gain ELSE 0])

estimate_unrealized_gains(L, px) ==
    Max(SumSeq([i \in 1..Len(L.positions) |->
                   UnrealizedPnl(L.lots[L.positions[i]], px[L.positions[i]])]), 0)

(* mean(R2) * min(tracking_error, 1), as a ratio *)
conviction_score(r2, tracking_error) ==
    LET te_score == IF tracking_error[1] <= tracking_error[2] THEN tracking_error ELSE <<1, 1>>
    IN <<r2[1] * te_score[1], r2[2] * te_score[2]>>

(* equity * (max_leverage - 1) - margin_balance *)
HeadroomIgnoringDebt(L, px) ==
    LET equity == equity_value(L, px)
        num == equity * (cfg.max_leverage[1] - cfg.max_leverage[2])
    IN [value |-> num \div cfg.max_leverage[2],
        exact |-> num % cfg.max_leverage[2] = 0]

Headroom(L, px) ==
    LET equity == equity_value(L, px)
        num == equity * (cfg.max_leverage[1] - cfg.max_leverage[2])
    IN [value |-> (num \div cfg.max_leverage[2]) - L.margin_balance,
        exact |-> num % cfg.max_leverage[2] = 0]

GainRecord(d, ticker, realized_gain, proceeds, is_harvest, is_forced, saved) ==
    [date |-> d, ticker |-> ticker, realized_gain |-> realized_gain,
     proceeds |-> proceeds, is_harvest |-> is_harvest,
     is_forced_liquidation |-> is_forced, tax_saved |-> saved]

(* step 1: margin interest accrual and the margin-call check *)
AccrueInterest(d) ==
    /\ pc = "idle"
    /\ date' = d
    /\ prices' = PricesAt(market, d)
    /\ IF MarginOn /\ margin_balance > 0
       THEN \E interest \in {daily_interest(margin_balance, cfg.annual_rate)} :
            \E L \in {[Ledger EXCEPT !.cash = @ - interest.value, !.exact = interest.exact]} :
               /\ SetLedger(L)
               /\ total_interest_paid' = total_interest_paid + interest.value
               /\ pc' = IF RatioGT(leverage_ratio(L, prices'), cfg.max_leverage)
                        THEN "liquidate" ELSE "harvest"
       ELSE /\ UNCHANGED <<ledgerVars, total_interest_paid>>
            /\ pc' = "harvest"
    /\ ret' = Returned("on_date")
    /\ calls' = calls + 1
    /\ UNCHANGED <<cfg, market, realized_gains, exposure_history, last_rebalance_date,
                   harvesterVars, loc>>

(* _forced_liquidation *)
PositionsAsHeld(L, px) ==
    SelectSeq(L.positions, LAMBDA t : total_shares(L.lots[t]) > 0)

PositionsByValue(L, px) ==
    LET held == SelectSeq(L.positions, LAMBDA t : total_shares(L.lots[t]) > 0)
        order == SortedIdx([i \in 1..Len(held) |-> PositionValue(L, px, held[i])])
    IN [i \in 1..Len(held) |-> held[order[i]]]

LiquidateFirstOnly(S, px, d, tickers) ==
    IF tickers = <<>> THEN S
    ELSE IF RatioLE(leverage_ratio(S.L, px), cfg.max_leverage) THEN S
    ELSE LET ticker == Head(tickers)
             sold == ExecSell(S.L, px, ticker, total_shares(S.L.lots[ticker]), d, "HIFO")
             repaid == ExecRepay(sold.L, sold.result.proceeds, d)
         IN [L |-> repaid.L,
             realized_gains |-> Append(S.realized_gains,
                 [date |-> d, ticker |-> ticker,
                  realized_gain |-> sold.result.realized_gain,
                  proceeds |-> sold.result.proceeds, is_harvest |-> FALSE,
                  is_forced_liquidation |-> TRUE, tax_saved |-> 0])]

RECURSIVE LiquidationLoop(_, _, _, _)
LiquidationLoop(S, px, d, tickers) ==
    IF tickers = <<>> THEN S
    ELSE IF RatioLE(leverage_ratio(S.L, px), cfg.max_leverage) THEN S
    ELSE LET ticker == Head(tickers)
             shares == total_shares(S.L.lots[ticker])
             sold == ExecSell(S.L, px, ticker, shares, d, "HIFO")
             repaid == ExecRepay(sold.L, sold.result.proceeds, d)
         IN LiquidationLoop(
                [L |-> repaid.L,
                 realized_gains |-> Append(S.realized_gains,
                     GainRecord(d, ticker, sold.result.realized_gain,
                                sold.result.proceeds, FALSE, TRUE, 0))],
                px, d, Tail(tickers))

forced_liquidation(L, rg, px, d) ==
    LiquidationLoop([L |-> L, realized_gains |-> rg], px, d, PositionsByValue(L, px))

ForcedLiquidation ==
    /\ pc = "liquidate"
    /\ \E S \in {forced_liquidation(Ledger, realized_gains, prices, date)} :
          /\ SetLedger(S.L)
          /\ realized_gains' = S.realized_gains
    /\ pc' = "harvest"
    /\ UNCHANGED <<cfg, market, date, prices, total_interest_paid, exposure_history,
                   last_rebalance_date, harvesterVars, loc, ret, calls>>

(* step 2: tax-loss harvesting *)
HarvestGainRecordsNotLogged(records) == <<>>

HarvestGainRecords(records) ==
    [i \in 1..Len(records) |->
        GainRecord(records[i].date, records[i].ticker, 0 - records[i].realized_loss,
                   records[i].proceeds, TRUE, FALSE, records[i].tax_saved)]

HarvestStep ==
    /\ pc = "harvest"
    /\ IF cfg.has_harvester
       THEN \E ytd_gains \in {realized_gains_ytd(realized_gains, date)} :
            \E r \in {harvest(Harvester, prices, date, ytd_gains)} :
               /\ SetHarvester(r.H)
               /\ realized_gains' = realized_gains \o HarvestGainRecords(r.records)
               /\ ret' = [Returned("harvest") EXCEPT !.amount = ytd_gains,
                                                    !.records = r.records]
       ELSE UNCHANGED <<ledgerVars, harvesterVars, realized_gains, ret>>
    /\ pc' = "gate"
    /\ UNCHANGED <<cfg, market, date, prices, total_interest_paid, exposure_history,
                   last_rebalance_date, loc, calls>>

(* steps 3-5: rebalance-date check, exposure snapshot, decision gate.       *)
(* The factor model and the universe selector are collaborators: the        *)
(* eligible universe, the tracking error and mean R2 are their outputs.     *)
RebalanceGateIgnoringDecision(universe, sig) ==
    /\ pc = "gate"
    /\ IF ~is_rebalance_date(date)
       THEN /\ pc' = "idle"
            /\ UNCHANGED <<exposure_history, loc, ret>>
       ELSE \E rebalance \in
                 {should_rebalance(estimate_unrealized_gains(Ledger, prices),
                                   <<sig.tracking_error[1] * market_value(Ledger, prices),
                                     sig.tracking_error[2]>>, 0)} :
               /\ exposure_history' = Append(exposure_history, [date |-> date])
               /\ loc' = [universe |-> universe, tracking_error |-> sig.tracking_error,
                          r2 |-> sig.r2]
               /\ ret' = [Returned("should_rebalance") EXCEPT !.approved = rebalance]
               /\ pc' = "overlay"
    /\ UNCHANGED <<cfg, market, date, prices, ledgerVars, realized_gains,
                   total_interest_paid, last_rebalance_date, harvesterVars, calls>>

RebalanceGateSnapshotOnApproval(universe, sig) ==
    /\ pc = "gate"
    /\ IF ~is_rebalance_date(date)
       THEN /\ pc' = "idle"
            /\ UNCHANGED <<exposure_history, loc, ret>>
       ELSE \E rebalance \in
                 {should_rebalance(estimate_unrealized_gains(Ledger, prices),
                                   <<sig.tracking_error[1] * market_value(Ledger, prices),
                                     sig.tracking_error[2]>>, 0)} :
               /\ exposure_history' = IF rebalance
                                       THEN Append(exposure_history, [date |-> date])
                                       ELSE exposure_history
               /\ loc' = IF rebalance
                         THEN [universe |-> universe, tracking_error |-> sig.tracking_error,
                               r2 |-> sig.r2]
                         ELSE NoLocals
               /\ ret' = [Returned("should_rebalance") EXCEPT !.approved = rebalance]
               /\ pc' = IF rebalance THEN "overlay" ELSE "idle"
    /\ UNCHANGED <<cfg, market, date, prices, ledgerVars, realized_gains,
                   total_interest_paid, last_rebalance_date, harvesterVars, calls>>

RebalanceGate(universe, sig) ==
    /\ pc = "gate"
    /\ IF ~is_rebalance_date(date)
       THEN /\ pc' = "idle"
            /\ UNCHANGED <<exposure_history, loc, ret>>
       ELSE \E rebalance \in
                 {should_rebalance(estimate_unrealized_gains(Ledger, prices),
                                   <<sig.tracking_error[1] * market_value(Ledger, prices),
                                     sig.tracking_error[2]>>, 0)} :
               /\ exposure_history' = Append(exposure_history, [date |-> date])
               /\ loc' = IF rebalance
                         THEN [universe |-> universe, tracking_error |-> sig.tracking_error,
                               r2 |-> sig.r2]
                         ELSE NoLocals
               /\ ret' = [Returned("should_rebalance") EXCEPT !.approved = rebalance]
               /\ pc' = IF rebalance THEN "overlay" ELSE "idle"
    /\ UNCHANGED <<cfg, market, date, prices, ledgerVars, realized_gains,
                   total_interest_paid, last_rebalance_date, harvesterVars, calls>>

(* step 6: high-conviction leverage overlay *)
conviction_overlay_unguarded(L, px, d) ==
    LET conviction == conviction_score(loc.r2, loc.tracking_error)
        headroom == Headroom(L, px)
    IN IF conviction[1] * cfg.conviction_threshold[2]
             < cfg.conviction_threshold[1] * conviction[2]
       THEN L
       ELSE IF headroom.value > 1
            THEN [ExecBorrow(L, headroom.value, d) EXCEPT !.exact = headroom.exact]
            ELSE L

conviction_overlay(L, px, d) ==
    IF ~MarginOn THEN L
    ELSE LET conviction == conviction_score(loc.r2, loc.tracking_error)
             headroom == Headroom(L, px)
         IN IF conviction[1] * cfg.conviction_threshold[2]
                  < cfg.conviction_threshold[1] * conviction[2]
            THEN L
            ELSE IF headroom.value > 1
                 THEN [ExecBorrow(L, headroom.value, d) EXCEPT !.exact = headroom.exact]
                 ELSE L

ConvictionOverlay ==
    /\ pc = "overlay"
    /\ \E L \in {conviction_overlay(Ledger, prices, date)} : SetLedger(L)
    /\ pc' = "rebalance"
    /\ UNCHANGED <<cfg, market, date, prices, strategyVars, harvesterVars, loc, ret, calls>>

(* step 7: _rebalance_portfolio.  A rebalance value R is                    *)
(* [L, realized_gains, fault]; fault names the exception that left it.      *)

(* FactorReplicationOptimizer.optimize: None, or weights >= 0 summing to 1  *)
(* over the universe (in units of 1/WeightDen).                             *)
WeightDen == 2
InUniverse(universe, t) == \E i \in 1..Len(universe) : universe[i] = t

OptimizerResults(universe) ==
    {[solved |-> FALSE, weights |-> [t \in Tickers |-> 0]]}
    \cup (IF Len(universe) = 0 THEN {}
          ELSE {[solved |-> TRUE, weights |-> w] :
                  w \in {x \in [Tickers -> 0..WeightDen] :
                           /\ \A t \in Tickers : ~InUniverse(universe, t) => x[t] = 0
                           /\ SumSeq([i \in 1..Len(universe) |-> x[universe[i]]]) = WeightDen}})

(* target_allocations: none (Python None) or ticker -> currency, 0 = absent key *)
EqualWeight(universe, portfolio_value) ==
    IF Len(universe) = 0
    THEN [none |-> TRUE, fault |-> "ZeroDivisionError", exact |-> TRUE,
          alloc |-> [t \in Tickers |-> 0]]
    ELSE [none |-> FALSE, fault |-> "none",
          exact |-> portfolio_value % Len(universe) = 0,
          alloc |-> [t \in Tickers |->
                       IF InUniverse(universe, t)
                       THEN portfolio_value \div Len(universe) ELSE 0]]

TargetAllocations(universe, portfolio_value, opt) ==
    IF cfg.has_optimizer
    THEN IF ~opt.solved
         THEN [none |-> TRUE, fault |-> "none", exact |-> TRUE, alloc |-> [t \in Tickers |-> 0]]
         ELSE [none |-> FALSE, fault |-> "none",
               exact |-> \A t \in Tickers : (opt.weights[t] * portfolio_value) % WeightDen = 0,
               alloc |-> [t \in Tickers |-> (opt.weights[t] * portfolio_value) \div WeightDen]]
    ELSE EqualWeight(universe, portfolio_value)

ExpectedHoldDays == IF cfg.margin_config # "None" THEN cfg.expected_hold_days ELSE 90

SellOrBorrowUncapped(R, px, d, ticker, target) ==
    LET ls == R.L.lots[ticker]
        price == px[ticker]
        current_value == total_shares(ls) * price
        target_value == target.alloc[ticker]
        sell_amount == current_value - target_value
        unrealized == UnrealizedPnl(ls, price)
        headroom == Headroom(R.L, px)
        borrow_amount == sell_amount
        sold == ExecSell(R.L, px, ticker, sell_amount \div price, d, "HIFO")
    IN IF target.none THEN [R EXCEPT !.fault = "AttributeError"]
       ELSE IF ~(current_value > target_value) THEN R
       ELSE IF should_borrow_instead_of_sell(Max(unrealized, 0), sell_amount, ExpectedHoldDays)
       THEN IF cfg.margin_config = "None" THEN [R EXCEPT !.fault = "AttributeError"]
            ELSE IF borrow_amount > 1
                 THEN [R EXCEPT !.L = [ExecBorrow(R.L, borrow_amount, d)
                                          EXCEPT !.exact = @ /\ headroom.exact]]
                 ELSE [R EXCEPT !.L.exact = @ /\ headroom.exact]
       ELSE [R EXCEPT !.L = [sold.L EXCEPT !.exact = @ /\ (sell_amount % price = 0)],
                      !.realized_gains = Append(@,
                          GainRecord(d, ticker, sold.result.realized_gain,
                                     sold.result.proceeds, FALSE, FALSE, 0))]

SellOrBorrow(R, px, d, ticker, target) ==
    LET ls == R.L.lots[ticker]
        price == px[ticker]
        current_value == total_shares(ls) * price
        target_value == target.alloc[ticker]
        sell_amount == current_value - target_value
        unrealized == UnrealizedPnl(ls, price)
        headroom == Headroom(R.L, px)
        borrow_amount == Min(sell_amount, Max(headroom.value, 0))
        sold == ExecSell(R.L, px, ticker, sell_amount \div price, d, "HIFO")
    IN IF target.none THEN [R EXCEPT !.fault = "AttributeError"]
       ELSE IF ~(current_value > target_value) THEN R
       ELSE IF should_borrow_instead_of_sell(Max(unrealized, 0), sell_amount, ExpectedHoldDays)
       THEN IF cfg.margin_config = "None" THEN [R EXCEPT !.fault = "AttributeError"]
            ELSE IF borrow_amount > 1
                 THEN [R EXCEPT !.L = [ExecBorrow(R.L, borrow_amount, d)
                                          EXCEPT !.exact = @ /\ headroom.exact]]
                 ELSE [R EXCEPT !.L.exact = @ /\ headroom.exact]
       ELSE [R EXCEPT !.L = [sold.L EXCEPT !.exact = @ /\ (sell_amount % price = 0)],
                      !.realized_gains = Append(@,
                          GainRecord(d, ticker, sold.result.realized_gain,
                                     sold.result.proceeds, FALSE, FALSE, 0))]

RECURSIVE SellLoopRebalance(_, _, _, _, _)
SellLoopRebalance(R, px, d, tickers, target) ==
    IF tickers = <<>> \/ R.fault # "none" THEN R
    ELSE SellLoopRebalance(SellOrBorrow(R, px, d, Head(tickers), target),
                           px, d, Tail(tickers), target)

BuyOneUnchecked(R, px, d, ticker, target, blacklist) ==
    LET price == px[ticker]
        current_value == IF HasPosition(R.L, ticker)
                         THEN total_shares(R.L.lots[ticker]) * price ELSE 0
        shortfall == target.alloc[ticker] - current_value
        buy_amount == Min(shortfall, R.L.cash)
    IN IF target.none THEN [R EXCEPT !.fault = "AttributeError"]
       ELSE IF buy_amount > 0 THEN [R EXCEPT !.L = ExecBuy(R.L, px, ticker, buy_amount, d)]
       ELSE R

BuyOneWholeShortfall(R, px, d, ticker, target, blacklist) ==
    LET price == px[ticker]
        current_value == IF HasPosition(R.L, ticker)
                         THEN total_shares(R.L.lots[ticker]) * price ELSE 0
        shortfall == target.alloc[ticker] - current_value
        buy_amount == shortfall
    IN IF cfg.has_harvester /\ is_wash_sale_blocked(blacklist, ticker, d) THEN R
       ELSE IF target.none THEN [R EXCEPT !.fault = "AttributeError"]
       ELSE IF buy_amount > 0 THEN [R EXCEPT !.L = ExecBuy(R.L, px, ticker, buy_amount, d)]
       ELSE R

BuyOne(R, px, d, ticker, target, blacklist) ==
    LET price == px[ticker]
        current_value == IF HasPosition(R.L, ticker)
                         THEN total_shares(R.L.lots[ticker]) * price ELSE 0
        shortfall == target.alloc[ticker] - current_value
        buy_amount == Min(shortfall, R.L.cash)
    IN IF cfg.has_harvester /\ is_wash_sale_blocked(blacklist, ticker, d) THEN R
       ELSE IF target.none THEN [R EXCEPT !.fault = "AttributeError"]
       ELSE IF buy_amount > 0 THEN [R EXCEPT !.L = ExecBuy(R.L, px, ticker, buy_amount, d)]
       ELSE R

RECURSIVE BuyLoop(_, _, _, _, _, _)
BuyLoop(R, px, d, universe, target, blacklist) ==
    IF universe = <<>> \/ R.fault # "none" THEN R
    ELSE BuyLoop(BuyOne(R, px, d, Head(universe), target, blacklist),
                 px, d, Tail(universe), target, blacklist)

RebalanceTo(L, rg, px, d, universe, target, blacklist) ==
    LET R0 == [L |-> [L EXCEPT !.exact = @ /\ target.exact],
               realized_gains |-> rg, fault |-> target.fault]
        R1 == SellLoopRebalance(R0, px, d, L.positions, target)
    IN BuyLoop(R1, px, d, universe, target, blacklist)

rebalance_portfolio(L, rg, px, d, universe, opt, blacklist) ==
    RebalanceTo(L, rg, px, d, universe,
                TargetAllocations(universe, market_value(L, px), opt), blacklist)

RebalancePortfolio(opt) ==
    /\ pc = "rebalance"
    /\ \E R \in {rebalance_portfolio(Ledger, realized_gains, prices, date,
                                      loc.universe, opt, wash_sale_blacklist)} :
          /\ SetLedger(R.L)
          /\ realized_gains' = R.realized_gains
          /\ ret' = [Returned("rebalance") EXCEPT !.fault = R.fault, !.solved = opt.solved]
          /\ IF R.fault = "none"
             THEN last_rebalance_date' = date /\ pc' = "repay"
             ELSE UNCHANGED last_rebalance_date /\ pc' = "fault"
    /\ UNCHANGED <<cfg, market, date, prices, total_interest_paid, exposure_history,
                   harvesterVars, loc, calls>>

(* step 8: repay margin from spare cash *)
RepayMargin ==
    /\ pc = "repay"
    /\ IF MarginOn /\ margin_balance > 0
       THEN \E r \in {ExecRepay(Ledger, Max(cash, 0), date)} : SetLedger(r.L)
       ELSE UNCHANGED ledgerVars
    /\ pc' = "idle"
    /\ loc' = NoLocals
    /\ UNCHANGED <<cfg, market, date, prices, strategyVars, harvesterVars, ret, calls>>

----------------------------------------------------------------------------
(* Configurations and inputs *)

MaxGap == 1            \* largest step between two consecutive dates

BaseConfig ==
    [initial_cash |-> 64,
     \* MarginConfig as held by the strategy ("None" = not configured) and by the decision engine
     margin_config |-> "None", de_margin_enabled |-> FALSE, de_has_cost_model |-> FALSE,
     max_leverage |-> <<2, 1>>, annual_rate |-> <<63, 4>>,
     conviction_threshold |-> <<4, 5>>, expected_hold_days |-> 1,
     \* TaxConfig
     brackets |-> <<(<<20, 27>>), (<<Infinity, 42>>)>>,
     has_harvester |-> FALSE, harvest_enabled |-> TRUE,
     harvest_months |-> {MonthsPerYear - 1, MonthsPerYear}, min_loss_threshold |-> 2,
     wash_sale_waiting_days |-> 2, max_harvest_per_year |-> Infinity,
     \* TradingCostConfig (pct_cost as a percentage)
     pct_cost |-> 1, min_cost |-> 1,
     has_optimizer |-> FALSE]

WithMargin(c) ==
    [c EXCEPT !.margin_config = "enabled", !.de_margin_enabled = TRUE,
              !.de_has_cost_model = TRUE]

Configs ==
    {BaseConfig,
     [BaseConfig EXCEPT !.has_harvester = TRUE, !.has_optimizer = TRUE,
                        !.margin_config = "disabled", !.de_has_cost_model = TRUE],
     WithMargin([BaseConfig EXCEPT !.has_optimizer = TRUE]),
     WithMargin([BaseConfig EXCEPT !.has_harvester = TRUE, !.max_harvest_per_year = 8])}

Markets ==
    {[A |-> <<1, 1, 2, 2, 2, 2>>, B |-> <<2, 2, 2, 2, 1, 1>>],
     [A |-> <<2, 1>>, B |-> <<2, 1>>]}

Universes == {<<>>, <<"B">>, <<"A", "B">>}

Signals ==
    {[tracking_error |-> <<0, 1>>, r2 |-> <<1, 1>>],
     [tracking_error |-> <<1, 1>>, r2 |-> <<1, 2>>],
     [tracking_error |-> <<2, 1>>, r2 |-> <<1, 1>>]}

----------------------------------------------------------------------------
(* The simulation run: construction, then one on_date call per date *)

Init ==
    /\ cfg \in Configs
    /\ market \in Markets
    /\ date = None
    /\ prices = PricesAt(market, 1)
    /\ cash = cfg.initial_cash
    /\ margin_balance = 0
    /\ positions = <<>>
    /\ lots = [t \in Tickers |-> <<>>]
    /\ trades = <<>>
    /\ realized_gains = <<>>
    /\ total_interest_paid = 0
    /\ exposure_history = <<>>
    /\ last_rebalance_date = None
    /\ harvested_this_year = 0
    /\ current_year = None
    /\ wash_sale_blacklist = [t \in Tickers |-> None]
    /\ pc = "idle"
    /\ loc = NoLocals
    /\ ret = Returned("init")
    /\ calls = 0

Next ==
    \/ \E d \in (date + 1)..Min(date + MaxGap, MaxDay) : AccrueInterest(d)
    \/ ForcedLiquidation
    \/ HarvestStep
    \/ \E universe \in Universes, sig \in Signals : RebalanceGate(universe, sig)
    \/ ConvictionOverlay
    \/ \E opt \in OptimizerResults(loc.universe) : RebalancePortfolio(opt)
    \/ RepayMargin

Spec == Init /\ [][Next]_vars

----------------------------------------------------------------------------
(* Executor harness: the Executor and the Portfolio queries called directly *)
(* on portfolios built the way the unit tests build them.                   *)

ExecCash == {0 - 100, 500, 12000}
ExecDebt == {0, 2000}
ExecPrices == {50, 120, 200}
ExecLots ==
    {[t \in Tickers |-> <<>>],
     [t \in Tickers |-> IF t = "A" THEN <<Lot(5, 50, 1), Lot(5, 200, 2)>> ELSE <<>>]}
BuyAmounts == {600}
SellShares == {5, 12}
BorrowAmounts == {300, 2000}
RepayAmounts == {500, 2000, 5000}

HarnessBase ==
    /\ market = [t \in Tickers |-> <<50>>]
    /\ date = None
    /\ margin_balance \in ExecDebt
    /\ trades = <<>>
    /\ realized_gains = <<>>
    /\ total_interest_paid = 0
    /\ exposure_history = <<>>
    /\ last_rebalance_date = None
    /\ harvested_this_year = 0
    /\ current_year = None
    /\ wash_sale_blacklist = [t \in Tickers |-> None]
    /\ pc = "harness"
    /\ loc = NoLocals
    /\ ret = Returned("init")
    /\ calls = 0

InitExecutor ==
    /\ HarnessBase
    /\ cfg = BaseConfig
    /\ prices = PricesAt(market, 1)
    /\ cash \in ExecCash
    /\ lots \in ExecLots
    /\ positions = IF lots["A"] = <<>> THEN <<>> ELSE <<"A">>

HarnessCall(op) ==
    /\ pc = "harness"
    /\ calls < MaxCalls
    /\ calls' = calls + 1
    /\ date' = date + 1
    /\ UNCHANGED <<cfg, market, pc, loc, strategyVars, harvesterVars>>

CallBuy(ticker, euro_amount) ==
    /\ HarnessCall("buy")
    /\ \E L \in {ExecBuy(Ledger, prices, ticker, euro_amount, date')} : SetLedger(L)
    /\ ret' = [Returned("buy") EXCEPT !.amount = euro_amount]
    /\ UNCHANGED prices

CallSell(ticker, shares, method) ==
    /\ HarnessCall("sell")
    /\ HasPosition(Ledger, ticker)
    /\ \E sold \in {ExecSell(Ledger, prices, ticker, shares, date', method)} :
          /\ SetLedger(sold.L)
          /\ ret' = [Returned("sell") EXCEPT !.amount = shares, !.result = sold.result]
    /\ UNCHANGED prices

CallBorrow(amount) ==
    /\ HarnessCall("borrow")
    /\ \E L \in {ExecBorrow(Ledger, amount, date')} : SetLedger(L)
    /\ ret' = [Returned("borrow") EXCEPT !.amount = amount]
    /\ UNCHANGED prices

CallRepay(amount) ==
    /\ HarnessCall("repay")
    /\ \E r \in {ExecRepay(Ledger, amount, date')} :
          /\ SetLedger(r.L)
          /\ ret' = [Returned("repay") EXCEPT !.amount = amount, !.repaid = r.repaid]
    /\ UNCHANGED prices

(* the market data the test stub serves on the next date *)
MarketMove(ticker, price) ==
    /\ HarnessCall("market")
    /\ prices' = [prices EXCEPT ![ticker] = price]
    /\ ret' = Returned("market")
    /\ UNCHANGED ledgerVars

NextExecutor ==
    \/ \E t \in Tickers, a \in BuyAmounts : CallBuy(t, a)
    \/ \E t \in Tickers, n \in SellShares : CallSell(t, n, "HIFO")
    \/ \E a \in BorrowAmounts : CallBorrow(a)
    \/ \E a \in RepayAmounts : CallRepay(a)
    \/ \E t \in Tickers, p \in ExecPrices : MarketMove(t, p)

SpecExecutor == InitExecutor /\ [][NextExecutor]_vars

----------------------------------------------------------------------------
(* Harvester harness: harvest() called directly on portfolios holding lots, *)
(* the caller keeping the returned records as the strategy does.            *)

HarvestConfigs ==
    {[BaseConfig EXCEPT !.has_harvester = TRUE, !.harvest_months = 1..MonthsPerYear,
                        !.max_harvest_per_year = 6],
     [BaseConfig EXCEPT !.has_harvester = TRUE, !.wash_sale_waiting_days = 3],
     [BaseConfig EXCEPT !.has_harvester = TRUE, !.harvest_enabled = FALSE]}

HarvestLots ==
    {[A |-> <<Lot(4, 3, 1), Lot(4, 2, 1)>>, B |-> <<Lot(6, 2, 1)>>],
     [A |-> <<Lot(2, 1, 1), Lot(4, 4, 1)>>, B |-> <<Lot(6, 3, 1)>>]}
HarvestPrices == [Tickers -> {1, 2}]
HarvestGains == {0 - 4, 0, 3, 10, 24}
HarvestGaps == {1, 2, DaysPerMonth * MonthsPerYear}

InitHarvest ==
    /\ HarnessBase
    /\ margin_balance = 0
    /\ cfg \in HarvestConfigs
    /\ prices = PricesAt(market, 1)
    /\ cash = 0
    /\ lots \in HarvestLots
    /\ positions = <<"A", "B">>

CallHarvest(gap, px, realized_gains_ytd_arg) ==
    /\ pc = "harness"
    /\ calls < MaxCalls
    /\ calls' = calls + 1
    /\ date' = date + gap
    /\ prices' = px
    /\ \E r \in {harvest(Harvester, px, date', realized_gains_ytd_arg)} :
          /\ SetHarvester(r.H)
          /\ realized_gains' = realized_gains \o HarvestGainRecords(r.records)
          /\ ret' = [Returned("harvest") EXCEPT !.amount = realized_gains_ytd_arg,
                                               !.records = r.records]
    /\ UNCHANGED <<cfg, market, pc, loc, total_interest_paid, exposure_history,
                   last_rebalance_date>>

NextHarvest ==
    \E gap \in HarvestGaps, px \in HarvestPrices, g \in HarvestGains :
        CallHarvest(gap, px, g)

SpecHarvest == InitHarvest /\ [][NextHarvest]_vars

----------------------------------------------------------------------------
(* Tax and decision harness: TaxEngine.tax_due and the two DecisionEngine   *)
(* decisions called directly with arguments of the unit tests' kind.        *)

BracketSchedules ==
    {<<(<<20, 27>>), (<<Infinity, 42>>)>>,
     <<(<<10000, 27>>), (<<Infinity, 42>>)>>,
     <<(<<5, 10>>), (<<10, 20>>), (<<Infinity, 30>>)>>,
     <<(<<Infinity, 25>>)>>}

DecisionConfigs ==
    {[c EXCEPT !.brackets = b, !.annual_rate = <<73, 20>>] :
        b \in BracketSchedules,
        c \in {BaseConfig,
               [BaseConfig EXCEPT !.de_margin_enabled = TRUE],
               [BaseConfig EXCEPT !.de_has_cost_model = TRUE],
               WithMargin(BaseConfig)}}

Gains == {0 - 5, 0, 1, 3, 5, 8, 10, 20, 25}
TaxedGains == Gains \cup {10000, 15000}
Improvements == {<<0, 1>>, <<1, 1>>, <<2, 1>>, <<3, 1>>, <<37, 10>>, <<4, 1>>}
TradeValues == {0 - 300, 0, 200}
SellAmounts == {27, 100, 270}
HoldDays == {1, 10}

(* the arguments and the value of a call of a function *)
Evaluated(op, args, value) == [op |-> op, args |-> args, value |-> value]

InitDecision ==
    /\ HarnessBase
    /\ margin_balance = 0
    /\ cfg \in DecisionConfigs
    /\ prices = PricesAt(market, 1)
    /\ cash = 0
    /\ lots = [t \in Tickers |-> <<>>]
    /\ positions = <<>>

CallTaxDue(realized_gain) ==
    /\ HarnessCall("tax_due")
    /\ ret' = Evaluated("tax_due", <<realized_gain>>, tax_due(realized_gain))
    /\ UNCHANGED <<ledgerVars, prices>>

CallShouldRebalance(unrealized_gain, expected_improvement, trade_value) ==
    /\ HarnessCall("should_rebalance")
    /\ ret' = Evaluated("should_rebalance",
                        <<unrealized_gain, expected_improvement, trade_value>>,
                        should_rebalance(unrealized_gain, expected_improvement, trade_value))
    /\ UNCHANGED <<ledgerVars, prices>>

CallShouldBorrow(unrealized_gain, sell_amount, expected_hold_days) ==
    /\ HarnessCall("should_borrow_instead_of_sell")
    /\ ret' = Evaluated("should_borrow_instead_of_sell",
                        <<unrealized_gain, sell_amount, expected_hold_days>>,
                        should_borrow_instead_of_sell(unrealized_gain, sell_amount,
                                                      expected_hold_days))
    /\ UNCHANGED <<ledgerVars, prices>>

NextDecision ==
    \/ \E g \in TaxedGains : CallTaxDue(g)
    \/ \E g \in Gains, ei \in Improvements, tv \in TradeValues :
          CallShouldRebalance(g, ei, tv)
    \/ \E g \in Gains, a \in SellAmounts, n \in HoldDays : CallShouldBorrow(g, a, n)

SpecDecision == InitDecision /\ [][NextDecision]_vars

----------------------------------------------------------------------------
(* Position harness: Position.sell_shares called directly on a position of  *)
(* ticker "A" holding up to MaxLots lots, under either lot-selection method. *)

LotShares == {1, 2}
LotBases == {1, 2, 4}
LotDates == {1, 2}
LotPrices == {1, 3, 5}
SellCounts == {1, 2, 3, 7}
Methods == {"HIFO", "FIFO"}

LotSet == {Lot(s, b, d) : s \in LotShares, b \in LotBases, d \in LotDates}

RECURSIVE LotBooks(_)
LotBooks(n) ==
    IF n = 0 THEN {<<>>}
    ELSE LET shorter == LotBooks(n - 1)
         IN shorter \cup {Append(ls, l) : ls \in {b \in shorter : Len(b) = n - 1},
                                          l \in LotSet}

(* lots are appended as they are bought, so purchase dates never decrease *)
BoughtInOrder(ls) ==
    \A i \in 1..Len(ls) - 1 : ls[i].purchase_date <= ls[i + 1].purchase_date

InitPosition ==
    /\ HarnessBase
    /\ margin_balance = 0
    /\ cfg = BaseConfig
    /\ \E p \in LotPrices : prices = [t \in Tickers |-> p]
    /\ cash = 0
    /\ \E ls \in {b \in LotBooks(MaxLots) : b # <<>> /\ BoughtInOrder(b)} :
          lots = [t \in Tickers |-> IF t = "A" THEN ls ELSE <<>>]
    /\ positions = <<"A">>

CallSellShares(shares, method) ==
    /\ HarnessCall("sell_shares")
    /\ \E r \in {sell_shares(lots["A"], shares, prices["A"], method)} :
          /\ lots' = [lots EXCEPT !["A"] = r.lots]
          /\ ret' = Evaluated("sell_shares",
                              <<lots["A"], shares, prices["A"], method>>, r)
    /\ UNCHANGED <<cash, margin_balance, positions, trades, prices>>

NextPosition ==
    \/ \E n \in SellCounts : CallSellShares(n, "HIFO")
    \/ \E n \in SellCounts : CallSellShares(n, "FIFO")

SpecPosition == InitPosition /\ [][NextPosition]_vars

----------------------------------------------------------------------------
(* Properties *)

IsHarvest(i) == realized_gains[i].is_harvest
SharesHeld(t) == total_shares(lots[t])

RECURSIVE ValueOfHoldings(_)
ValueOfHoldings(S) ==
    IF S = {} THEN 0
    ELSE LET t == CHOOSE x \in S : TRUE
         IN SharesHeld(t) * prices[t] + ValueOfHoldings(S \ {t})

(* C1: the losses of the harvest records dated in one calendar year never   *)
(* add up to more than max_harvest_per_year.                                *)
HarvestedInYear(y) ==
    SumSeq([i \in 1..Len(realized_gains) |->
               IF IsHarvest(i) /\ Year(realized_gains[i].date) = y
               THEN 0 - realized_gains[i].realized_gain ELSE 0])

C1_AnnualCap ==
    \A i \in 1..Len(realized_gains) :
        HarvestedInYear(Year(realized_gains[i].date)) <= cfg.max_harvest_per_year

(* the cap was reached by two harvest sales of the same year *)
C1_Witness ==
    /\ cfg.max_harvest_per_year # Infinity
    /\ HarvestedInYear(Year(date)) = cfg.max_harvest_per_year
    /\ Cardinality({i \in 1..Len(realized_gains) :
                       IsHarvest(i) /\ Year(realized_gains[i].date) = Year(date)}) >= 2

(* C3: after a harvest sale of T on day D, T is wash-sale-blocked on every  *)
(* day d with 0 <= d - D < waiting days and on no day with d - D >= waiting *)
(* days; a ticker never harvested is never blocked.                         *)
LastHarvestDate(t) ==
    LET S == {i \in 1..Len(realized_gains) : IsHarvest(i) /\ realized_gains[i].ticker = t}
    IN IF S = {} THEN None
       ELSE realized_gains[CHOOSE i \in S : \A j \in S : j <= i].date

C3_WashSaleWindow ==
    \A t \in Tickers :
        LET D == LastHarvestDate(t) IN
        IF D = None
        THEN \A d \in 1..(date + 1) : ~is_wash_sale_blocked(wash_sale_blacklist, t, d)
        ELSE \A d \in D..(D + 2 * cfg.wash_sale_waiting_days) :
                 is_wash_sale_blocked(wash_sale_blacklist, t, d)
                     <=> (d - D < cfg.wash_sale_waiting_days)

(* a harvested ticker whose window has run out, next to one still blocked *)
C3_Witness ==
    /\ \E t \in Tickers :
          /\ LastHarvestDate(t) # None
          /\ date = LastHarvestDate(t) + cfg.wash_sale_waiting_days
          /\ ~is_wash_sale_blocked(wash_sale_blacklist, t, date)
    /\ \E t \in Tickers :
          /\ LastHarvestDate(t) # None
          /\ is_wash_sale_blocked(wash_sale_blacklist, t, date)

(* C7: repay moves r = min(amount, margin_balance, max(cash, 0)) from cash  *)
(* to the debt and returns r: the debt never goes negative, non-negative    *)
(* cash never turns negative, and negative cash repays nothing.             *)
C7_Repay ==
    [][ret'.op = "repay" =>
          LET r == Min(Min(ret'.amount, margin_balance), Max(cash, 0)) IN
          /\ ret'.repaid = r
          /\ cash' = cash - r
          /\ margin_balance' = margin_balance - r
          /\ margin_balance' >= 0
          /\ (cash >= 0 => cash' >= 0)
          /\ (cash < 0 => ret'.repaid = 0 /\ UNCHANGED ledgerVars)]_vars

(* repay(2000) on cash 500 and debt 2000 repaid 500 *)
C7_Witness ==
    /\ ret.op = "repay" /\ ret.amount = 2000 /\ ret.repaid = 500
    /\ cash = 0 /\ margin_balance = 1500

(* C9: leverage_ratio is 1 with no debt, +infinity with debt and equity     *)
(* <= 0, and market value / equity otherwise.                               *)
MarketValueNow == cash + ValueOfHoldings(Tickers)
EquityNow == MarketValueNow - margin_balance

C9_LeverageRatio ==
    LET lev == leverage_ratio(Ledger, prices) IN
    /\ margin_balance = 0 => lev = RatioOne
    /\ (margin_balance > 0 /\ EquityNow <= 0) => lev = RatioInf
    /\ (margin_balance > 0 /\ EquityNow > 0) =>
           lev[2] > 0 /\ lev[1] * EquityNow = MarketValueNow * lev[2]
    /\ (cash = 12000 /\ margin_balance = 2000 /\ \A t \in Tickers : SharesHeld(t) = 0) =>
           MarketValueNow = 12000 /\ EquityNow = 10000 /\ lev[1] * 10 = lev[2] * 12

(* debt outstanding, shares held, and the equity wiped out *)
C9_Witness ==
    /\ calls >= 2
    /\ margin_balance > 0
    /\ \E t \in Tickers : SharesHeld(t) > 0
    /\ EquityNow <= 0
    /\ leverage_ratio(Ledger, prices) = RatioInf

(* C2: the trade log never holds a buy of a ticker dated inside the         *)
(* wash-sale window of a harvest sale of that ticker, the harvest day       *)
(* included.                                                                *)
C2_NoBuyInWashSaleWindow ==
    \A i \in 1..Len(trades), j \in 1..Len(realized_gains) :
        (trades[i].type = "buy" /\ IsHarvest(j)
            /\ realized_gains[j].ticker = trades[i].ticker)
        => ~(/\ 0 <= trades[i].date - realized_gains[j].date
             /\ trades[i].date - realized_gains[j].date < cfg.wash_sale_waiting_days)

(* a rebalance has run its buys on the day a ticker of its universe was harvested *)
C2_Witness ==
    /\ pc = "repay"
    /\ \E i \in 1..Len(loc.universe) : wash_sale_blacklist[loc.universe[i]] = date
    /\ \E i \in 1..Len(trades) : trades[i].type = "buy" /\ trades[i].date = date

(* C4: every change of cash, margin_balance and the shares held is the      *)
(* effect of the trade records appended in the same step.                   *)
NewTrades == SubSeq(trades', Len(trades) + 1, Len(trades'))
CashEffect(r) ==
    IF r.type \in {"sell", "borrow"} THEN r.amount ELSE 0 - r.amount
DebtEffect(r) ==
    IF r.type = "borrow" THEN r.amount ELSE IF r.type = "repay" THEN 0 - r.amount ELSE 0
ShareEffect(r, t) ==
    IF r.ticker # t THEN 0
    ELSE IF r.type = "buy" THEN r.shares ELSE IF r.type = "sell" THEN 0 - r.shares ELSE 0

LedgerFollowsTrades(direct_debit) ==
    /\ Len(trades') >= Len(trades)
    /\ SubSeq(trades', 1, Len(trades)) = trades
    /\ cash' = cash - direct_debit
                 + SumSeq([i \in 1..Len(NewTrades) |-> CashEffect(NewTrades[i])])
    /\ margin_balance' = margin_balance
                 + SumSeq([i \in 1..Len(NewTrades) |-> DebtEffect(NewTrades[i])])
    /\ \A t \in Tickers :
          total_shares(lots'[t]) = SharesHeld(t)
                 + SumSeq([i \in 1..Len(NewTrades) |-> ShareEffect(NewTrades[i], t)])

FallbackTarget ==
    IF Len(loc.universe) = 0
    THEN [none |-> FALSE, fault |-> "none", exact |-> TRUE, alloc |-> [t \in Tickers |-> 0]]
    ELSE EqualWeight(loc.universe, market_value(Ledger, prices))

C5_EqualWeightFallback ==
    [][(pc = "rebalance" /\ cfg.has_optimizer /\ ~ret'.solved) =>
          LET R == RebalanceTo(Ledger, realized_gains, prices, date, loc.universe,
                               FallbackTarget, wash_sale_blacklist)
          IN /\ pc' = "repay"
             /\ R.L.exact => /\ cash' = R.L.cash
                              /\ lots' = R.L.lots
                              /\ trades' = R.L.trades]_vars

(* C6: when forced liquidation finishes, leverage is within the cap or no   *)
(* position holds shares; it sells each position at most once, and whole.   *)
LeverageWithinCap ==
    \/ margin_balance <= 0
    \/ /\ EquityNow > 0
       /\ MarketValueNow * cfg.max_leverage[2] <= cfg.max_leverage[1] * EquityNow

C6_ForcedLiquidation ==
    [][pc = "liquidate" =>
          LET sells == {i \in 1..Len(NewTrades) : NewTrades[i].type = "sell"} IN
          /\ pc' = "harvest"
          /\ LeverageWithinCap' \/ \A t \in Tickers : total_shares(lots'[t]) = 0
          /\ \A i, j \in sells : NewTrades[i].ticker = NewTrades[j].ticker => i = j
          /\ \A i \in sells : /\ NewTrades[i].shares = SharesHeld(NewTrades[i].ticker)
                                /\ total_shares(lots'[NewTrades[i].ticker]) = 0
          /\ Cardinality(sells) <= Len(positions)]_vars

(* a forced liquidation sold a position today and stopped with shares still held *)
C6_Witness ==
    /\ pc = "harvest"
    /\ \E i \in 1..Len(realized_gains) :
          realized_gains[i].is_forced_liquidation /\ realized_gains[i].date = date
    /\ \E t \in Tickers : SharesHeld(t) > 0
    /\ LeverageWithinCap

(* C8: margin_balance is never negative. *)
C8_MarginBalanceNonNegative == margin_balance >= 0

(* debt is outstanding after borrows and repayments *)
C8_Witness ==
    /\ pc = "idle"
    /\ margin_balance > 0
    /\ \E i \in 1..Len(trades) : trades[i].type = "repay"

(* C10: with margin disabled there is never debt, a borrow or repay record, *)
(* interest paid, or a leverage other than 1.                               *)
C10_NoMarginWhenDisabled ==
    (cfg.margin_config # "enabled" /\ ~cfg.de_margin_enabled) =>
        /\ margin_balance = 0
        /\ \A i \in 1..Len(trades) : trades[i].type \notin {"borrow", "repay"}
        /\ total_interest_paid = 0
        /\ leverage_ratio(Ledger, prices) = RatioOne

(* a run without margin that has bought and sold over several dates *)
C10_Witness ==
    /\ cfg.margin_config # "enabled" /\ ~cfg.de_margin_enabled
    /\ pc = "idle" /\ date >= 2 * DaysPerMonth
    /\ \E i \in 1..Len(trades) : trades[i].type = "sell"
    /\ \E i \in 1..Len(trades) : trades[i].type = "buy"

(* The ticker of the Executor call that made the step: the one of the       *)
(* record it appended.                                                      *)
CalledTicker == trades'[Len(trades')].ticker

(* C11: a sell sells min(requested, shares held), returns proceeds =        *)
(* shares sold x price and leaves held - sold shares; no position ever      *)
(* holds a negative number of shares.                                       *)
C11_SellNeverOversells ==
    /\ [][ret'.op = "sell" =>
            LET t == CalledTicker
                sold == Min(ret'.amount, SharesHeld(t)) IN
            /\ ret'.result.shares_sold = sold
            /\ ret'.result.proceeds = sold * prices[t]
            /\ total_shares(lots'[t]) = SharesHeld(t) - sold]_vars
    /\ [](\A t \in Tickers : SharesHeld(t) >= 0)

(* a sell of 12 shares of a position holding 10 sold 10 *)
C11_Witness ==
    /\ ret.op = "sell" /\ ret.amount = 12 /\ ret.result.shares_sold = 10
    /\ \E t \in Tickers : HasPosition(Ledger, t) /\ SharesHeld(t) = 0

(* C12: a HIFO sell takes min(lot.shares, remaining) from the lots in       *)
(* descending order of cost basis; the realized gain is the sum of          *)
(* sold_i x (price - cost_basis_i) and lots not reached keep their shares.  *)
C12_HifoOrder ==
    [][ret'.op = "sell" =>
          LET t == CalledTicker
              ls == lots[t]
              Before(j, i) == \/ ls[j].cost_basis > ls[i].cost_basis
                              \/ ls[j].cost_basis = ls[i].cost_basis /\ j < i
              Ahead(i) == SumSeq([j \in 1..Len(ls) |->
                                     IF Before(j, i) THEN ls[j].shares ELSE 0])
              Sold(i) == Min(ls[i].shares, Max(0, ret'.amount - Ahead(i)))
              left == [i \in 1..Len(ls) |-> [ls[i] EXCEPT !.shares = @ - Sold(i)]]
          IN /\ ret'.result.realized_gain =
                    SumSeq([i \in 1..Len(ls) |-> Sold(i) * (prices[t] - ls[i].cost_basis)])
             /\ lots'[t] = SelectSeq(left, LAMBDA l : l.shares > 0)]_vars

(* lots 5@50 and 5@200, 5 shares sold at 120: gain -400, 5@50 left *)
C12_Witness ==
    /\ ret.op = "sell" /\ ret.amount = 5 /\ ret.result.realized_gain = 0 - 400
    /\ prices["A"] = 120
    /\ lots["A"] = <<Lot(5, 50, 1)>>

(* C13: harvest() returns no record and sells nothing, leaving portfolio,   *)
(* trade log and wash-sale registry as they were, when harvesting is        *)
(* disabled, the month is not a harvest month or the gains of the year are  *)
(* <= 0; every harvest record is dated in a harvest month.                  *)
C13_HarvestGates ==
    /\ [][(/\ ret'.op = "harvest"
            /\ \/ ~cfg.harvest_enabled
               \/ MonthOf(date') \notin cfg.harvest_months
               \/ ret'.amount <= 0)
           => /\ ret'.records = <<>>
              /\ UNCHANGED <<ledgerVars, wash_sale_blacklist, realized_gains>>]_vars
    /\ [](\A i \in 1..Len(realized_gains) :
              IsHarvest(i) => MonthOf(realized_gains[i].date) \in cfg.harvest_months)

(* a call outside the harvest months returned nothing although gains were   *)
(* there to offset and a position stood at a harvestable loss               *)
C13_Witness ==
    /\ ret.op = "harvest" /\ ret.records = <<>> /\ ret.amount > 0
    /\ cfg.harvest_enabled
    /\ MonthOf(date) \notin cfg.harvest_months
    /\ \E t \in Tickers :
          /\ ~is_wash_sale_blocked(wash_sale_blacklist, t, date)
          /\ UnrealizedPnl(lots[t], prices[t]) < 0 - cfg.min_loss_threshold
    /\ \E i \in 1..Len(realized_gains) : IsHarvest(i)

(* C14: the rebalance-date check passes on the first call and afterwards    *)
(* iff the month or year of the date differs from that of                   *)
(* last_rebalance_date; last_rebalance_date changes only when a rebalance   *)
(* was approved and executed, so each period sees at most one rebalance.    *)
NewPeriod ==
    \/ last_rebalance_date = None
    \/ Year(date) # Year(last_rebalance_date)
    \/ MonthOf(date) # MonthOf(last_rebalance_date)

C14_RebalanceDates ==
    /\ [][pc = "gate" =>
            /\ (calls = 1 => NewPeriod)
            /\ (Len(exposure_history') > Len(exposure_history)) <=> NewPeriod
            /\ (~NewPeriod => pc' = "idle")]_vars
    /\ [][last_rebalance_date' # last_rebalance_date =>
            /\ pc = "rebalance" /\ pc' = "repay"
            /\ ret.op = "should_rebalance" /\ ret.approved
            /\ last_rebalance_date' = date]_vars
    /\ [][(pc = "rebalance" /\ pc' = "repay") => NewPeriod]_vars

(* a date of the period already rebalanced has been passed over, after      *)
(* rebalances in two periods                                                *)
C14_Witness ==
    /\ pc = "idle"
    /\ last_rebalance_date # None /\ date > last_rebalance_date
    /\ PeriodOf(date) = PeriodOf(last_rebalance_date)
    /\ \E i \in 1..Len(trades) :
          trades[i].type = "buy" /\ PeriodOf(trades[i].date) < PeriodOf(date)
    /\ \E i \in 1..Len(trades) : trades[i].date = last_rebalance_date

(* C15: when the decision engine rejects, on_date returns normally and      *)
(* only the exposure history has changed since the harvesting step.         *)
C15_RejectedRebalance ==
    [][(pc = "gate" /\ ret'.op = "should_rebalance" /\ ~ret'.approved) =>
          /\ pc' = "idle"
          /\ exposure_history' = Append(exposure_history, [date |-> date])
          /\ UNCHANGED <<ledgerVars, realized_gains, last_rebalance_date>>]_vars

(* a rebalance was rejected while positions were held, after an earlier one ran *)
C15_Witness ==
    /\ pc = "idle"
    /\ ret.op = "should_rebalance" /\ ~ret.approved
    /\ \E t \in Tickers : SharesHeld(t) > 0
    /\ last_rebalance_date # None /\ last_rebalance_date < date
    /\ exposure_history[Len(exposure_history)].date = date

(* C16: every Executor buy, sell, borrow and repay call appends exactly one *)
(* trade record and leaves the earlier records as they were.                *)
ExecutorOps == {"buy", "sell", "borrow", "repay"}

AppendsOneRecord ==
    /\ Len(trades') = Len(trades) + 1
    /\ SubSeq(trades', 1, Len(trades)) = trades
    /\ trades'[Len(trades')].type = ret'.op
    /\ trades'[Len(trades')].date = date'

C16_OneRecordPerCall ==
    [][ret'.op \in ExecutorOps => AppendsOneRecord]_vars

(* C16 as amended: the same for buy, sell, borrow and for a repay that      *)
(* repays something; a repay that repays nothing leaves the log as it was.  *)
C16_OneRecordPerEffectiveCall ==
    [][ret'.op \in ExecutorOps =>
          IF ret'.op = "repay" /\ ret'.repaid = 0
          THEN trades' = trades
          ELSE AppendsOneRecord]_vars

(* the log holds a record of each kind, the last call being a repay that    *)
(* repaid nothing                                                           *)
C16_Witness ==
    /\ ret.op = "repay" /\ ret.repaid = 0
    /\ Len(trades) = calls - 1
    /\ \E i \in 1..Len(trades) : trades[i].type = "sell"
    /\ \E i \in 1..Len(trades) : trades[i].type \in {"buy", "borrow"}

(* C20: a buy of X at price P followed at once by a sell of X / P shares of *)
(* the same ticker at the same price returns realized gain 0 and proceeds   *)
(* X and restores cash.                                                     *)
RoundTrip ==
    /\ ret.op = "buy" /\ ret'.op = "sell"
    /\ CalledTicker = trades[Len(trades)].ticker
    /\ ret'.amount * prices[CalledTicker] = ret.amount

C20_RoundTrip ==
    [][RoundTrip =>
          /\ ret'.result.realized_gain = 0
          /\ ret'.result.proceeds = ret.amount
          /\ cash' = cash + ret.amount]_vars

(* C20 as amended: proceeds X and cash restored from any state; realized    *)
(* gain 0 when no lot of the ticker has a cost basis above P, and otherwise *)
(* the loss of the higher-cost lots that HIFO sells first.                  *)
C20_RoundTripHifo ==
    [][RoundTrip =>
          LET ls == lots[CalledTicker]
              P == prices[CalledTicker] IN
          /\ ret'.result.proceeds = ret.amount
          /\ cash' = cash + ret.amount
          /\ (\A i \in 1..Len(ls) : ls[i].cost_basis <= P)
                => ret'.result.realized_gain = 0
          /\ ret'.result.realized_gain <= 0]_vars

(* a round trip was made on a ticker not held before *)
C20_Witness ==
    /\ ret.op = "sell" /\ Len(trades) >= 2
    /\ trades[Len(trades) - 1].type = "buy"
    /\ trades[Len(trades) - 1].ticker = trades[Len(trades)].ticker
    /\ trades[Len(trades) - 1].date = date - 1
    /\ trades[Len(trades)].amount = trades[Len(trades) - 1].amount
    /\ ret.result.realized_gain = 0
    /\ SharesHeld(trades[Len(trades)].ticker) = 0

(* C17: tax_due(g) is 0 for g <= 0 and otherwise the sum over the brackets  *)
(* of rate x the part of g inside the bracket's band; brackets              *)
(* [(10000, 27%), (inf, 42%)] give 2700 for 10000 and 4800 for 15000.       *)
BandTax(g) ==
    SumSeq([i \in 1..Len(cfg.brackets) |->
               LET lower == IF i = 1 THEN 0 ELSE cfg.brackets[i - 1][1]
                   upper == cfg.brackets[i][1]
               IN cfg.brackets[i][2] * Max(0, Min(g, upper) - lower)])

C17_MarginalBrackets ==
    ret.op = "tax_due" =>
        LET g == ret.args[1] IN
        /\ (g <= 0 => ret.value = 0)
        /\ (g > 0 => ret.value = BandTax(g))
        /\ (cfg.brackets = <<(<<10000, 27>>), (<<Infinity, 42>>)>> =>
               /\ (g = 10000 => ret.value = 2700 * RateDen)
               /\ (g = 15000 => ret.value = 4800 * RateDen))

(* tax_due(15000) = 4800 under the brackets of the scenario *)
C17_Witness ==
    /\ ret.op = "tax_due" /\ ret.args = <<15000>> /\ ret.value = 4800 * RateDen
    /\ Len(cfg.brackets) = 2

(* C18: should_rebalance is true iff expected_improvement exceeds           *)
(* tax_due(unrealized_gain) + max(|trade_value| x pct_cost, min_cost); a    *)
(* tie rejects.                                                             *)
RebalanceCost(unrealized_gain, trade_value) ==
    tax_due(unrealized_gain)
        + (IF Abs(trade_value) * cfg.pct_cost >= cfg.min_cost * RateDen
           THEN Abs(trade_value) * cfg.pct_cost ELSE cfg.min_cost * RateDen)

C18_ShouldRebalance ==
    ret.op = "should_rebalance" =>
        LET cost == RebalanceCost(ret.args[1], ret.args[3])
            ei == ret.args[2] IN
        /\ ret.value <=> (ei[1] * RateDen > cost * ei[2])
        /\ (ei[1] * RateDen = cost * ei[2] => ~ret.value)

(* an improvement equal to the cost of a sale of 300 was rejected *)
C18_Witness ==
    /\ ret.op = "should_rebalance" /\ ~ret.value
    /\ ret.args[3] = 0 - 300
    /\ ret.args[2][1] * RateDen = RebalanceCost(ret.args[1], ret.args[3]) * ret.args[2][2]

(* C19: should_borrow_instead_of_sell is false with margin disabled or      *)
(* absent, without a cost model or with tax_due(unrealized_gain) <= 0, and  *)
(* otherwise true iff sell_amount x annual_rate x days / 365 is below       *)
(* tax_due(unrealized_gain).                                                *)
C19_ShouldBorrow ==
    ret.op = "should_borrow_instead_of_sell" =>
        LET tax == tax_due(ret.args[1])
            sell_amount == ret.args[2]
            days == ret.args[3] IN
        IF ~cfg.de_margin_enabled \/ ~cfg.de_has_cost_model \/ tax <= 0
        THEN ~ret.value
        ELSE ret.value <=>
               (sell_amount * cfg.annual_rate[1] * days * RateDen
                    < tax * cfg.annual_rate[2] * CalendarDays)

(* an interest cost equal to the tax was not enough to borrow *)
C19_Witness ==
    /\ ret.op = "should_borrow_instead_of_sell" /\ ~ret.value
    /\ cfg.de_margin_enabled /\ cfg.de_has_cost_model
    /\ tax_due(ret.args[1]) > 0
    /\ ret.args[2] * cfg.annual_rate[1] * ret.args[3] * RateDen
          = tax_due(ret.args[1]) * cfg.annual_rate[2] * CalendarDays

(* C21: from the same starting lots, with pairwise distinct cost bases and  *)
(* a position that has risen in value at the current price, a HIFO sell of  *)
(* a share count realizes at most the gain of a FIFO sell of that count.    *)
DistinctBases(ls) ==
    \A i, j \in 1..Len(ls) : i # j => ls[i].cost_basis # ls[j].cost_basis

OtherMethod(method) == IF method = "HIFO" THEN "FIFO" ELSE "HIFO"

C21_HifoAtMostFifo ==
    [][ret'.op = "sell_shares" =>
         LET ls == ret'.args[1]
             shares == ret'.args[2]
             price == ret'.args[3]
             method == ret'.args[4]
             other == sell_shares(ls, shares, price, OtherMethod(method))
         IN (DistinctBases(ls) /\ UnrealizedPnl(ls, price) > 0) =>
               IF method = "HIFO"
               THEN ret'.value.realized_gain <= other.realized_gain
               ELSE other.realized_gain <= ret'.value.realized_gain]_vars

C21_Witness ==
    /\ ret.op = "sell_shares"
    /\ ret.args[4] = "HIFO"
    /\ Len(ret.args[1]) = MaxLots
    /\ DistinctBases(ret.args[1])
    /\ UnrealizedPnl(ret.args[1], ret.args[3]) > 0
    /\ ret.args[2] < total_shares(ret.args[1])
    /\ ret.value.realized_gain
         < sell_shares(ret.args[1], ret.args[2], ret.args[3], "FIFO").realized_gain

(* the records of the harvest() call just made, and what was left to        *)
(* offset and left of the annual cap when its k-th record was made          *)
HarvestedBefore(k) == SumSeq([j \in 1..k - 1 |-> ret'.records[j].realized_loss])

RemainingGainsAt(k) == ret'.amount - HarvestedBefore(k)

AnnualRoomAt(k) ==
    IF cfg.max_harvest_per_year = Infinity THEN Infinity
    ELSE cfg.max_harvest_per_year
           - (IF current_year # Year(date') THEN 0 ELSE harvested_this_year)
           - HarvestedBefore(k)

PnlBeforeCall(ticker) == UnrealizedPnl(lots[ticker], prices'[ticker])

(* C22: the loss realized by each harvest sale equals                       *)
(* min(|unrealized P&L of the position|, remaining gains to offset,         *)
(* remaining annual cap room), neither more nor less.                       *)
C22_RealizedLossIsTarget ==
    [][ret'.op = "harvest" =>
         \A k \in 1..Len(ret'.records) :
            ret'.records[k].realized_loss
              = Min(Min(Abs(PnlBeforeCall(ret'.records[k].ticker)), RemainingGainsAt(k)),
                    AnnualRoomAt(k))]_vars

C22_Witness ==
    /\ ret.op = "harvest"
    /\ Len(ret.records) = 2
    /\ ret.records[1].realized_loss + ret.records[2].realized_loss = ret.amount
    /\ SharesHeld(ret.records[1].ticker) = 0
    /\ SharesHeld(ret.records[2].ticker) > 0

(* C23: the losses realized by one harvest() call never add up to more than *)
(* the year-to-date gain passed to it, and no position is sold once the     *)
(* gains left to offset or the annual room left have reached 0.             *)
C23_NeverBelowZero ==
    [][ret'.op = "harvest" =>
         /\ ret'.records # <<>> =>
               HarvestedBefore(Len(ret'.records) + 1) <= ret'.amount
         /\ \A k \in 1..Len(ret'.records) :
               RemainingGainsAt(k) > 0 /\ AnnualRoomAt(k) > 0]_vars

C23_Witness ==
    /\ ret.op = "harvest"
    /\ Len(ret.records) = 1
    /\ ret.records[1].ticker = "A"
    /\ ret.records[1].realized_loss = ret.amount
    /\ wash_sale_blacklist["B"] = None
    /\ UnrealizedPnl(lots["B"], prices["B"]) < 0 - ret.amount
    /\ ret.amount > cfg.min_loss_threshold
    /\ cfg.max_harvest_per_year = Infinity

TaxSavedOn(gains, realized_loss) ==
    tax_due(gains) - tax_due(Max(0, gains - realized_loss))

(* C24 as stated: every harvest record's tax_saved equals                   *)
(* tax_due(G) - tax_due(G - realized_loss), G being the year-to-date gain   *)
(* passed to the harvest() call, for every record of the call.              *)
C24_TaxSavedOnYtd ==
    [][ret'.op = "harvest" =>
         \A k \in 1..Len(ret'.records) :
            ret'.records[k].tax_saved
              = TaxSavedOn(ret'.amount, ret'.records[k].realized_loss)]_vars

(* C24, amended: every harvest record's tax_saved equals                    *)
(* tax_due(R) - tax_due(max(R - realized_loss, 0)), R being the gain still  *)
(* to offset when the record is made: the year-to-date gain passed to the   *)
(* call less the losses of the records before it (R = G for the first).     *)
C24_TaxSavedOnRemaining ==
    [][ret'.op = "harvest" =>
         \A k \in 1..Len(ret'.records) :
            ret'.records[k].tax_saved
              = TaxSavedOn(RemainingGainsAt(k), ret'.records[k].realized_loss)]_vars

C24_Witness ==
    /\ ret.op = "harvest"
    /\ Len(ret.records) = 2
    /\ ret.records[2].tax_saved
         = TaxSavedOn(ret.amount - ret.records[1].realized_loss,
                      ret.records[2].realized_loss)
    /\ ret.records[2].tax_saved
         # TaxSavedOn(ret.amount, ret.records[2].realized_loss)

(* what harvest() has realized, when it comes to the i-th position, on the  *)
(* positions before it, and whether the call made a record for a ticker     *)
PositionIndex(ticker) == CHOOSE i \in 1..Len(positions) : positions[i] = ticker

HarvestedAhead(i) ==
    SumSeq([j \in 1..Len(ret'.records) |->
              IF PositionIndex(ret'.records[j].ticker) < i
              THEN ret'.records[j].realized_loss ELSE 0])

HarvestedTicker(ticker) ==
    \E j \in 1..Len(ret'.records) : ret'.records[j].ticker = ticker

(* the call passes the gates of the call, and reaches the i-th position     *)
(* with at least min_loss_threshold of gains and of annual room left        *)
ReachesPosition(i) ==
    /\ ret'.op = "harvest"
    /\ cfg.harvest_enabled
    /\ MonthOf(date') \in cfg.harvest_months
    /\ ret'.amount - HarvestedAhead(i) > 0
    /\ ret'.amount - HarvestedAhead(i) >= cfg.min_loss_threshold
    /\ \/ cfg.max_harvest_per_year = Infinity
       \/ LET room == cfg.max_harvest_per_year
                        - (IF current_year # Year(date') THEN 0 ELSE harvested_this_year)
                        - HarvestedAhead(i)
          IN room > 0 /\ room >= cfg.min_loss_threshold

(* C25: a position is a harvest candidate iff it holds shares, its ticker   *)
(* is not wash-sale-blocked on the date and its unrealized P&L is           *)
(* <= -min_loss_threshold, a loss equal to the threshold included.          *)
C25_CandidateInclusive ==
    [][\A i \in 1..Len(positions) :
          ReachesPosition(i) =>
             (HarvestedTicker(positions[i])
                <=> /\ total_shares(lots[positions[i]]) > 0
                    /\ ~is_wash_sale_blocked(wash_sale_blacklist, positions[i], date')
                    /\ PnlBeforeCall(positions[i]) <= 0 - cfg.min_loss_threshold)]_vars

(* the rebalance step just taken is _rebalance_portfolio run to its end     *)
(* with the optimizer result opt                                            *)
RebalancedWith(opt) ==
    /\ pc = "rebalance"
    /\ pc' = "repay"
    /\ ret'.solved = opt.solved
    /\ LET R == rebalance_portfolio(Ledger, realized_gains, prices, date,
                                    loc.universe, opt, wash_sale_blacklist)
       IN /\ R.L.exact
          /\ R.fault = "none"
          /\ cash' = R.L.cash
          /\ margin_balance' = R.L.margin_balance
          /\ lots' = R.L.lots
          /\ trades' = R.L.trades
          /\ realized_gains' = R.realized_gains

(* by how much the position of a ticker exceeds its target allocation *)
ExcessOverTarget(ticker, opt) ==
    PositionValue(Ledger, prices, ticker)
      - TargetAllocations(loc.universe, market_value(Ledger, prices), opt).alloc[ticker]

NewGains == SubSeq(realized_gains', Len(realized_gains) + 1, Len(realized_gains'))

SoldWithGainLogged(ticker, amount) ==
    /\ \E i \in 1..Len(NewTrades) :
          /\ NewTrades[i].type = "sell"
          /\ NewTrades[i].ticker = ticker
          /\ NewTrades[i].amount = amount
    /\ \E i \in 1..Len(NewGains) :
          /\ NewGains[i].ticker = ticker
          /\ NewGains[i].proceeds = amount

BorrowedAtLeast(amount) ==
    \E i \in 1..Len(NewTrades) :
       NewTrades[i].type = "borrow" /\ NewTrades[i].amount >= amount

(* C26: in a rebalance, for every held position whose market value exceeds  *)
(* its target allocation, the orchestrator either borrows an amount         *)
(* covering the excess or sells the excess and logs the realized gain.      *)
C26_BorrowOrSell ==
    [][\A opt \in OptimizerResults(loc.universe) :
          RebalancedWith(opt) =>
             \A i \in 1..Len(positions) :
                ExcessOverTarget(positions[i], opt) > 0 =>
                   \/ BorrowedAtLeast(ExcessOverTarget(positions[i], opt))
                   \/ SoldWithGainLogged(positions[i],
                                         ExcessOverTarget(positions[i], opt))]_vars

(* the borrows of the step just taken *)
NewBorrows == SelectSeq(NewTrades, LAMBDA r : r.type = "borrow")

BorrowedInStep == SumSeq([i \in 1..Len(NewBorrows) |-> NewBorrows[i].amount])

ConvictionBelowThreshold ==
    LET conviction == conviction_score(loc.r2, loc.tracking_error)
    IN conviction[1] * cfg.conviction_threshold[2]
         < cfg.conviction_threshold[1] * conviction[2]

(* C27: what the orchestrator borrows, in the conviction overlay and in     *)
(* place of sells, is at most the leverage headroom                         *)
(* equity x (max_leverage - 1) - margin_balance, so that leverage is within *)
(* the cap after the borrow; it borrows nothing when equity <= 0 or the     *)
(* headroom is not positive.                                                *)
C27_BorrowWithinHeadroom ==
    [][(pc \in {"overlay", "rebalance"} /\ NewBorrows # <<>>) =>
          /\ EquityNow > 0
          /\ Headroom(Ledger, prices).value > 0
          /\ BorrowedInStep <= Headroom(Ledger, prices).value
          /\ pc = "overlay" => Len(NewBorrows) = 1
          /\ LeverageWithinCap']_vars

(* a rebalance has borrowed in place of a sell, with debt outstanding before *)
C27_Witness ==
    /\ pc = "repay"
    /\ ConvictionBelowThreshold
    /\ Len(trades) >= 2
    /\ trades[Len(trades)].type = "borrow"
    /\ trades[Len(trades)].date = date
    /\ margin_balance > trades[Len(trades)].amount
    /\ LeverageWithinCap

HeldAtStart == {t \in Tickers : SharesHeld(t) > 0}

ValueAtStart(t) == SharesHeld(t) * prices[t]

OverCap(c, m, sold) ==
    LET mv == c + SumSeq([i \in 1..Len(positions) |->
                            IF positions[i] \in sold THEN 0
                            ELSE ValueAtStart(positions[i])])
        equity == mv - m
    IN /\ m > 0
       /\ \/ equity <= 0
          \/ mv * cfg.max_leverage[2] > cfg.max_leverage[1] * equity

RECURSIVE LiquidationTrace(_, _, _, _)
LiquidationTrace(trs, c, m, sold) ==
    IF trs = <<>> THEN ~OverCap(c, m, sold) \/ sold = HeldAtStart
    ELSE LET r == Head(trs)
             due == Min(Min(r.amount, m), Max(c + r.amount, 0))
         IN /\ r.type = "sell"
            /\ r.ticker \in HeldAtStart \ sold
            /\ OverCap(c, m, sold)
            /\ r.shares = SharesHeld(r.ticker)
            /\ r.amount = ValueAtStart(r.ticker)
            /\ \A t \in HeldAtStart \ sold : ValueAtStart(r.ticker) <= ValueAtStart(t)
            /\ IF due > 0
               THEN /\ Len(trs) >= 2
                    /\ trs[2].type = "repay"
                    /\ trs[2].amount = due
                    /\ LiquidationTrace(Tail(Tail(trs)), c + r.amount - due, m - due,
                                        sold \cup {r.ticker})
               ELSE LiquidationTrace(Tail(trs), c + r.amount, m, sold \cup {r.ticker})

NewSells == SelectSeq(NewTrades, LAMBDA r : r.type = "sell")

(* C29: forced liquidation sells positions in ascending order of their      *)
(* market value at its start, sells nothing more once leverage is within    *)
(* the cap, repays debt from the proceeds of each sale before the next, and *)
(* logs every sale in the realized-gains log as a forced liquidation.       *)
C29_LiquidationOrder ==
    [][pc = "liquidate" =>
          /\ LiquidationTrace(NewTrades, cash, margin_balance, {})
          /\ Len(NewGains) = Len(NewSells)
          /\ \A i \in 1..Len(NewSells) :
                /\ NewGains[i].is_forced_liquidation
                /\ NewGains[i].date = date
                /\ NewGains[i].ticker = NewSells[i].ticker
                /\ NewGains[i].proceeds = NewSells[i].amount
                /\ NewGains[i].realized_gain
                     = UnrealizedPnl(lots[NewSells[i].ticker], prices[NewSells[i].ticker])]_vars

(* a forced liquidation sold the smaller of two positions, repaid from the  *)
(* proceeds and stopped with the larger one still held                      *)
C29_Witness ==
    /\ pc = "harvest"
    /\ Len(trades) >= 2
    /\ trades[Len(trades)].type = "repay" /\ trades[Len(trades)].date = date
    /\ trades[Len(trades) - 1].type = "sell" /\ trades[Len(trades) - 1].date = date
    /\ realized_gains # <<>>
    /\ realized_gains[Len(realized_gains)].is_forced_liquidation
    /\ realized_gains[Len(realized_gains)].date = date
    /\ \E t \in Tickers :
          /\ t # trades[Len(trades) - 1].ticker
          /\ SharesHeld(t) * prices[t] > trades[Len(trades) - 1].amount
          /\ PositionIndex(t) < PositionIndex(trades[Len(trades) - 1].ticker)

(* the realized gains of the records logged today, and of the earlier ones  *)
(* of the year                                                              *)
GainsLoggedToday ==
    SumSeq([i \in 1..Len(realized_gains) |->
               IF realized_gains[i].date = date THEN realized_gains[i].realized_gain ELSE 0])

GainsOfEarlierDays ==
    SumSeq([i \in 1..Len(realized_gains) |->
               IF realized_gains[i].date < date
                  /\ Year(realized_gains[i].date) = Year(date)
               THEN realized_gains[i].realized_gain ELSE 0])

(* C30: with a harvester configured, every on_date call invokes harvest     *)
(* exactly once, after the interest accrual and any forced liquidation and  *)
(* before the rebalance-date check, on rebalance dates and on others; the   *)
(* year-to-date gain passed includes the day's forced-liquidation gains.    *)
C30_HarvestOncePerDay ==
    /\ [][pc = "idle" => pc' \in {"liquidate", "harvest"}]_vars
    /\ [][pc = "liquidate" => pc' = "harvest"]_vars
    /\ [][pc' = "harvest" => pc \in {"idle", "liquidate"}]_vars
    /\ [][pc' = "gate" => pc = "harvest"]_vars
    /\ [][pc' \in {"idle", "overlay"} /\ pc # "repay" => pc = "gate"]_vars
    /\ [][(pc = "harvest" /\ cfg.has_harvester) =>
             /\ ret'.op = "harvest"
             /\ ret'.amount = GainsOfEarlierDays + GainsLoggedToday
             /\ current_year' = Year(date)]_vars
    /\ [][(pc # "harvest" /\ cfg.has_harvester) =>
             UNCHANGED <<harvested_this_year, current_year, wash_sale_blacklist>>]_vars

(* harvest has been called on a date that is not a rebalance date, with a   *)
(* year-to-date gain that counts the gain of the day's forced liquidation   *)
C30_Witness ==
    /\ pc = "gate"
    /\ ret.op = "harvest"
    /\ ~is_rebalance_date(date)
    /\ \E i \in 1..Len(realized_gains) :
          /\ realized_gains[i].is_forced_liquidation
          /\ realized_gains[i].date = date
          /\ realized_gains[i].realized_gain > 0
          /\ ret.amount >= realized_gains[i].realized_gain
          /\ GainsOfEarlierDays < realized_gains[i].realized_gain

(* C31: an on_date call with margin enabled and debt outstanding lowers     *)
(* cash by margin_balance x annual_rate / 252 and raises                    *)
(* total_interest_paid by the same amount, leaving margin_balance and the   *)
(* lots as they are; with margin disabled or no debt nothing accrues and no *)
(* forced liquidation is considered.                                        *)
C31_InterestAccrual ==
    [][pc = "idle" =>
          IF cfg.margin_config = "enabled" /\ margin_balance > 0
          THEN /\ (cash - cash') * TRADING_DAYS * cfg.annual_rate[2]
                    = margin_balance * cfg.annual_rate[1]
               /\ total_interest_paid' - total_interest_paid = cash - cash'
               /\ UNCHANGED <<margin_balance, lots, positions, trades>>
          ELSE /\ UNCHANGED <<cash, margin_balance, lots, positions, trades,
                              total_interest_paid>>
               /\ pc' = "harvest"]_vars

(* interest has been debited on a later day than the borrow, and the debt   *)
(* is what was borrowed                                                     *)
C31_Witness ==
    /\ pc \in {"liquidate", "harvest"}
    /\ total_interest_paid > 0
    /\ trades # <<>>
    /\ \A i \in 1..Len(trades) : trades[i].type # "repay" /\ trades[i].date < date
    /\ margin_balance
         = SumSeq([i \in 1..Len(trades) |->
                     IF trades[i].type = "borrow" THEN trades[i].amount ELSE 0])
    /\ margin_balance > 0

(* C32: on a rebalance date on which the eligible universe is empty,        *)
(* on_date completes without a fault and executes no buy, with or without   *)
(* an optimizer.                                                            *)
C32_EmptyUniverse ==
    [][(pc = "rebalance" /\ loc.universe = <<>>) =>
          /\ pc' = "repay"
          /\ ret'.fault = "none"
          /\ \A i \in 1..Len(NewTrades) : NewTrades[i].type # "buy"]_vars

C34_SnapshotPerAttempt ==
    [][IF pc = "gate" /\ NewPeriod
       THEN exposure_history' = Append(exposure_history, [date |-> date])
       ELSE exposure_history' = exposure_history]_vars

(* a rejected attempt has left its snapshot behind those of earlier dates   *)
C34_Witness ==
    /\ pc = "idle"
    /\ ret.op = "should_rebalance" /\ ~ret.approved
    /\ Len(exposure_history) >= 2
    /\ exposure_history[Len(exposure_history)].date = date
    /\ last_rebalance_date # None /\ last_rebalance_date < date
    /\ trades # <<>>

(* C35: a harvest() call whose date lies in another calendar year than the  *)
(* previous call resets the annual harvested counter to 0 before anything   *)
(* else, also when the call is gated out; a call of the same year never     *)
(* resets it; the wash-sale registry is not cleared by the reset.           *)
C35_AnnualReset ==
    [][ret'.op = "harvest" =>
         /\ current_year' = Year(date')
         /\ harvested_this_year'
              = (IF current_year # Year(date') THEN 0 ELSE harvested_this_year)
                + HarvestedBefore(Len(ret'.records) + 1)
         /\ \A t \in Tickers :
               wash_sale_blacklist'[t]
                 = IF HarvestedTicker(t) THEN date' ELSE wash_sale_blacklist[t]]_vars

(* a call gated out in a new year has reset the counter of the year before  *)
(* and kept the registry                                                    *)
C35_Witness ==
    /\ ret.op = "harvest"
    /\ ret.records = <<>>
    /\ harvested_this_year = 0
    /\ current_year = Year(date)
    /\ \E i \in 1..Len(realized_gains) :
          /\ realized_gains[i].is_harvest
          /\ Year(realized_gains[i].date) < Year(date)
          /\ wash_sale_blacklist[realized_gains[i].ticker] = realized_gains[i].date
    /\ ret.amount <= 0 \/ MonthOf(date) \notin cfg.harvest_months

(* C36: two harvest sales of the same ticker are never less than            *)
(* wash_sale_waiting_days apart, and the registry holds, for every ticker,  *)
(* the date of its last harvest sale.                                       *)
C36_NoHarvestInWindow ==
    /\ \A i, j \in 1..Len(realized_gains) :
          (i < j /\ IsHarvest(i) /\ IsHarvest(j)
             /\ realized_gains[i].ticker = realized_gains[j].ticker)
          => realized_gains[j].date - realized_gains[i].date >= cfg.wash_sale_waiting_days
    /\ \A t \in Tickers : wash_sale_blacklist[t] = LastHarvestDate(t)

(* a ticker harvested again on the first date after its window, while the   *)
(* other is still blocked                                                   *)
C36_Witness ==
    \E i, j \in 1..Len(realized_gains) :
       /\ i < j /\ IsHarvest(i) /\ IsHarvest(j)
       /\ realized_gains[i].ticker = realized_gains[j].ticker
       /\ realized_gains[j].date - realized_gains[i].date = cfg.wash_sale_waiting_days
       /\ realized_gains[j].date = date
       /\ \E t \in Tickers :
             /\ t # realized_gains[j].ticker
             /\ is_wash_sale_blocked(wash_sale_blacklist, t, date)
             /\ wash_sale_blacklist[t] < date
             /\ UnrealizedPnl(lots[t], prices[t]) < 0 - cfg.min_loss_threshold

(* C37: every buy of a rebalance has a positive amount that is at most the  *)
(* cash held when it is made, so that no buy makes cash negative and none   *)
(* is made with cash <= 0.                                                  *)
C37_BuyWithinCash ==
    [][pc = "rebalance" =>
          \A i \in 1..Len(NewTrades) :
             NewTrades[i].type = "buy" =>
                /\ NewTrades[i].amount > 0
                /\ NewTrades[i].amount
                     <= cash + SumSeq([j \in 1..i - 1 |-> CashEffect(NewTrades[j])])]_vars

(* a rebalance has sold one position and bought with all the cash it had   *)
C37_Witness ==
    /\ pc = "repay"
    /\ cash = 0
    /\ Len(trades) >= 2
    /\ trades[Len(trades)].type = "buy"
    /\ trades[Len(trades)].date = date
    /\ trades[Len(trades)].amount > 0
    /\ trades[Len(trades) - 1].type = "sell"
    /\ trades[Len(trades) - 1].date = date

(* ------------------------------------------------------------------------ *)
SellTrades == SelectSeq(trades, LAMBDA r : r.type = "sell")

(* C38: the realized-gains log has exactly one record per sell record of    *)
(* the trade log, in the same order, with the same date, ticker and         *)
(* proceeds, whichever of harvest, forced liquidation or rebalance sold.    *)
C38_GainPerSell ==
    /\ Len(realized_gains) = Len(SellTrades)
    /\ \A i \in 1..Len(realized_gains) :
          /\ realized_gains[i].date = SellTrades[i].date
          /\ realized_gains[i].ticker = SellTrades[i].ticker
          /\ realized_gains[i].proceeds = SellTrades[i].amount

(* the log holds a harvest sale and a rebalance sale, two sales on one day  *)
C38_Witness ==
    /\ pc = "idle"
    /\ \E i \in 1..Len(realized_gains) : realized_gains[i].is_harvest
    /\ \E i \in 1..Len(realized_gains) :
          ~realized_gains[i].is_harvest /\ ~realized_gains[i].is_forced_liquidation
    /\ \E i \in 1..Len(realized_gains) - 1 :
          realized_gains[i].date = realized_gains[i + 1].date

(* ------------------------------------------------------------------------ *)
TradedToday(type) ==
    \E i \in 1..Len(trades) : trades[i].type = type /\ trades[i].date = date

(* C39: valued at the prices of the step, equity (market value minus margin *)
(* debt) is changed by no buy, sell, borrow or repay; a step changes it     *)
(* only by the margin interest it debits, so within one on_date call only   *)
(* the interest accrual moves equity.                                       *)
C39_EquityFrame ==
    [][/\ equity_value(Ledger', prices')
            = equity_value(Ledger, prices') - (total_interest_paid' - total_interest_paid)
       /\ total_interest_paid' # total_interest_paid => pc = "idle"]_vars

(* an on_date call that paid interest, sold, bought, borrowed and repaid    *)
C39_Witness ==
    /\ pc = "idle"
    /\ total_interest_paid > 0
    /\ TradedToday("buy")
    /\ TradedToday("sell")
    /\ TradedToday("borrow")
    /\ TradedToday("repay")

(* ------------------------------------------------------------------------ *)
LotsNotAtLoss(ls, price) == SelectSeq(ls, LAMBDA l : l.cost_basis <= price)

(* C40: a harvest call takes shares only from lots whose cost basis is      *)
(* above the price of the call: the lots that are not at a loss are left    *)
(* as they were, and in the HIFO order of every position the lots at a loss *)
(* come before all the others.                                              *)
C40_OnlyLossLotsSold ==
    [][(pc = "harness" \/ pc = "harvest") =>
          \A t \in Tickers :
             /\ LotsNotAtLoss(lots'[t], prices'[t]) = LotsNotAtLoss(lots[t], prices'[t])
             /\ \E order \in {SortedLots(lots[t], "HIFO")} :
                   \A i \in 1..Len(order) : \A j \in i..Len(order) :
                      (lots[t][order[j]].cost_basis > prices'[t]
                         => lots[t][order[i]].cost_basis > prices'[t])
      ]_vars

(* a harvest sale was made from a position that holds a lot bought below    *)
(* the current price, and that lot is whole after the sale                  *)
C40_Witness ==
    /\ pc = "harness"
    /\ Len(ret.records) > 0
    /\ \E i \in 1..Len(ret.records) :
          \E t \in {ret.records[i].ticker} :
             /\ ret.records[i].shares_sold > 0
             /\ \E k \in 1..Len(lots[t]) : lots[t][k].cost_basis < prices[t]
             /\ \E k \in 1..Len(lots[t]) : lots[t][k].cost_basis > prices[t]

====
